---- MODULE Spec2Model ----
(***************************************************************************)
(* A model of the vibelux utility scripts: the XML form extractor          *)
(* (extract_form_fields.py), the questionnaire analyzer                    *)
(* (analyze_questionnaire.py), the five line counters, the files the       *)
(* sixteen scripts read and write, the content list of the architecture    *)
(* PDF generator and the phases each script goes through.  Python strings  *)
(* are modelled as                                                         *)
(* sequences of one-character strings, so that find, rfind, slicing,       *)
(* lower(), endswith, split and the "in" substring test are computed the   *)
(* way Python computes them.                                               *)
(***************************************************************************)
EXTENDS Integers, Sequences, FiniteSets, TLC

VARIABLES
    \* extract_form_fields.py: locals of extract_form_fields
    content, form_start, form_opening, form_level, pos, form_end, form_xml,
    bound,      \* the names of the locals that have been assigned
    pc,         \* position in extract_form_fields and in main
    returned,   \* what extract_form_fields returned, "pending" before
    json_written,   \* main has written the JSON file
    main_returned,  \* what main returned, "pending" before
    \* the line counters
    tree,       \* the files beneath the directory the counters are run in
    script,     \* the counter that is running, or "none"
    remaining,  \* the files of the tree the running counter has not met yet
    total_files, total_lines, file_counts, line_counts, by_directory,
    tallied,    \* how often the running counter has tallied each file
    report,     \* the totals each counter has printed
    \* the files the sixteen scripts read and write
    fs,         \* path -> "absent", the kind of an outside file, or the
                \* script that wrote the file last
    read_from,  \* script -> the scripts whose output it has read
    writers,    \* path -> the scripts that have written it
    runs,       \* the number of script runs so far
    \* analyze_questionnaire.py: analyze_questionnaire
    fields,     \* form_data['fields']
    analysis,   \* the analysis dict
    idx,        \* the number of fields the loop has been through
    an_pc,      \* position in analyze_questionnaire
    \* extract_form_fields.py: the two parse functions
    options_str,    \* the text handed to the function
    parse_fn,       \* the function that was called, "none" before the call
    parse_result,   \* what it returned
    \* extract_form_fields.py: the form record
    root_form,  \* root, the parsed form element
    form_info,  \* the form record
    fields_pc,  \* position in lines 82-129 of extract_form_fields and in
                \* the summary of main
    summary,    \* what main has printed of the summary
    \* create_vibelux_architecture_pdf.py: one generator object
    pdf_content,    \* self.content
    pdf_pc,         \* position in create_pdf, "idle" between calls
    pdf_next,       \* the number of section methods the call has run
    pdf_calls,      \* the number of create_pdf calls on the object
    pdf_outcome,    \* how the last call ended
    downloads,      \* whether the directory ~/Downloads exists
    \* the phases of a script run
    ph_script,  \* the script that is running, or "none"
    ph_step,    \* the number of phases it has entered
    ph_runs     \* the number of scripts started so far

exVars == <<content, form_start, form_opening, form_level, pos, form_end,
            form_xml, bound, pc, returned, json_written, main_returned>>

\* what main of extract_form_fields.py adds to the locals of the function
mainVars == <<returned, json_written, main_returned>>

cntVars == <<tree, script, remaining, total_files, total_lines, file_counts,
             line_counts, by_directory, tallied, report>>

fsVars == <<fs, read_from, writers, runs>>

anVars == <<fields, analysis, idx, an_pc>>

parseVars == <<options_str, parse_fn, parse_result>>

fieldVars == <<root_form, form_info, fields_pc, summary>>

pdfVars ==
    <<pdf_content, pdf_pc, pdf_next, pdf_calls, pdf_outcome, downloads>>

phaseVars == <<ph_script, ph_step, ph_runs>>

vars == <<exVars, cntVars, fsVars, anVars, parseVars, fieldVars, pdfVars,
          phaseVars>>

(***************************************************************************)
(* Python string primitives                                                *)
(***************************************************************************)
Min(a, b) == IF a < b THEN a ELSE b

Max(a, b) == IF a > b THEN a ELSE b

\* a slice index as Python clamps it: negative counts from the end
PyIndex(n, i) == IF i < 0 THEN Max(n + i, 0) ELSE Min(i, n)

\* s[a:b]
PySlice(s, a, b) ==
    LET lo == PyIndex(Len(s), a)
        hi == PyIndex(Len(s), b)
    IN  IF lo >= hi THEN <<>> ELSE SubSeq(s, lo + 1, hi)

\* the 0-based offsets at which sub occurs in s
Occurrences(s, sub) ==
    {i \in 0..(Len(s) - Len(sub)) : SubSeq(s, i + 1, i + Len(sub)) = sub}

SetMin(S) == CHOOSE x \in S : \A y \in S : x <= y

SetMax(S) == CHOOSE x \in S : \A y \in S : x >= y

\* s.find(sub)
PyFind(s, sub) ==
    IF Occurrences(s, sub) = {} THEN -1 ELSE SetMin(Occurrences(s, sub))

\* s.rfind(sub, 0, end), for 0 <= end <= len(s)
PyRFind(s, sub, end) ==
    LET occ == {i \in Occurrences(s, sub) : i + Len(sub) <= end}
    IN  IF occ = {} THEN -1 ELSE SetMax(occ)

\* sub in s
PyIn(sub, s) == Occurrences(s, sub) # {}

\* s.endswith(suffix)
PyEndsWith(s, suffix) ==
    /\ Len(suffix) <= Len(s)
    /\ SubSeq(s, Len(s) - Len(suffix) + 1, Len(s)) = suffix

RECURSIVE Flatten(_)
\* the concatenation of a sequence of strings
Flatten(ss) == IF ss = <<>> THEN <<>> ELSE Head(ss) \o Flatten(Tail(ss))

(***************************************************************************)
(* extract_form_fields.py: the balanced-tag scan                           *)
(***************************************************************************)
FORM_KEY_MARKER ==
    <<"<","f","o","r","m","_","k","e","y",">","<","!","[","C","D","A","T","A","[","c","o","m","p","r","e","h","e","n","s","i","v","e","l","i","f","e","s","t","y","l","e","a","n","d","w","e","l","l","n","e","s","s","q","u","e","s","t","i","o","n","n","a","i","r","e","2","]","]",">","<","/","f","o","r","m","_","k","e","y",">">>

FORM_OPEN == <<"<","f","o","r","m",">">>

FORM_CLOSE == <<"<","/","f","o","r","m",">">>

TEXT == <<"x">>

\* the pieces the documents of the model are put together from
Tokens == {FORM_OPEN, FORM_CLOSE, FORM_KEY_MARKER, TEXT}

MaxTokens == 5

Documents ==
    {Flatten(toks) : toks \in UNION {[1..n -> Tokens] : n \in 0..MaxTokens}}

MaxScanTags == 2

\* runs of form tags
TagRuns ==
    UNION {[1..n -> {FORM_OPEN, FORM_CLOSE}] : n \in 0..MaxScanTags}

\* the documents the scan loop is followed through to its end on: the
\* marker with form tags before and after it
ScanDocuments ==
    UNION {{Flatten(SubSeq(run, 1, k) \o <<FORM_KEY_MARKER>>
                    \o SubSeq(run, k + 1, Len(run))) : k \in 0..Len(run)} :
           run \in TagRuns}

\* a comparison of five characters, which takes '<form_key>' for '<form>'
IsOpenTagPrefix(c, p) == PySlice(c, p, p + 5) = <<"<","f","o","r","m">>

\* content[pos:pos+6] == '<form>'
IsOpenTag(c, p) == PySlice(c, p, p + 6) = FORM_OPEN

\* content[pos:pos+7] == '</form>'
IsCloseTag(c, p) == PySlice(c, p, p + 7) = FORM_CLOSE

\* lines 51-54: the marker is not in the document
FormNotFound ==
    /\ pc = "start"
    /\ PyFind(content, FORM_KEY_MARKER) = -1
    /\ form_start' = -1
    /\ bound' = {"form_start"}
    /\ returned' = "None"
    /\ pc' = "done"
    /\ UNCHANGED <<content, form_opening, form_level, pos, form_end, form_xml,
                   json_written, main_returned>>

\* lines 51-61: the marker is found; the scan is set up at the last '<form>'
\* before it
FindForm ==
    /\ pc = "start"
    /\ PyFind(content, FORM_KEY_MARKER) # -1
    /\ form_start' = PyFind(content, FORM_KEY_MARKER)
    /\ form_opening' = PyRFind(content, FORM_OPEN, form_start')
    /\ form_level' = 0
    /\ pos' = form_opening'
    /\ bound' = {"form_start", "form_opening", "form_level", "pos"}
    /\ pc' = "scan"
    /\ UNCHANGED <<content, form_end, form_xml, mainVars>>

\* the position left where it is
Stay(p) == p

\* line 70: pos += 1
Advance(p) == p + 1

\* lines 62-70: one iteration of the while loop
ScanStep ==
    /\ pc = "scan"
    /\ pos < Len(content)
    /\ IF IsOpenTag(content, pos)
       THEN /\ form_level' = form_level + 1
            /\ pos' = Advance(pos)
            /\ UNCHANGED <<form_end, bound, pc>>
       ELSE IF IsCloseTag(content, pos)
       THEN /\ form_level' = form_level - 1
            /\ IF form_level' = 0
               THEN /\ form_end' = pos + 7
                    /\ bound' = bound \cup {"form_end"}
                    /\ pc' = "slice"
                    /\ UNCHANGED pos
               ELSE /\ pos' = Advance(pos)
                    /\ UNCHANGED <<form_end, bound, pc>>
       ELSE /\ pos' = Advance(pos)
            /\ UNCHANGED <<form_level, form_end, bound, pc>>
    /\ UNCHANGED <<content, form_start, form_opening, form_xml, mainVars>>

\* line 62: the loop condition fails, the scan ran off the end of the document
ScanExhausted ==
    /\ pc = "scan"
    /\ pos >= Len(content)
    /\ pc' = "slice"
    /\ UNCHANGED <<content, form_start, form_opening, form_level, pos,
                   form_end, form_xml, bound, mainVars>>

\* line 73: form_xml = content[form_opening:form_end]
SliceForm ==
    /\ pc = "slice"
    /\ "form_end" \in bound
    /\ form_xml' = PySlice(content, form_opening, form_end)
    /\ bound' = bound \cup {"form_xml"}
    /\ pc' = "parse"
    /\ UNCHANGED <<content, form_start, form_opening, form_level, pos, form_end,
                   mainVars>>

\* line 73 when the loop never assigned form_end: the read of the unbound
\* local raises, and nothing in extract_form_fields or main catches it
SliceUnbound ==
    /\ pc = "slice"
    /\ "form_end" \notin bound
    /\ pc' = "error"
    /\ UNCHANGED <<content, form_start, form_opening, form_level, pos,
                   form_end, form_xml, bound, mainVars>>

\* the tokens of the model's documents that s is made of, from left to
\* right; what is left when no token starts s is kept as one last piece
RECURSIVE Tokenize(_)

Tokenize(s) ==
    IF s = <<>> THEN <<>>
    ELSE IF \E t \in Tokens : PySlice(s, 0, Len(t)) = t
    THEN LET t == CHOOSE t \in Tokens : PySlice(s, 0, Len(t)) = t
         IN  <<t>> \o Tokenize(PySlice(s, Len(t), Len(s)))
    ELSE <<s>>

\* the nesting depth of form elements after the first k pieces of toks
Nesting(toks, k) ==
    Cardinality({i \in 1..k : toks[i] = FORM_OPEN})
    - Cardinality({i \in 1..k : toks[i] = FORM_CLOSE})

\* line 77, ET.fromstring(form_xml) on the documents of the model: the text
\* parses when it is one form element, opened first and closed last, with
\* nothing but whole forms, the form_key element and text inside it
ParsesAsXml(s) ==
    LET toks == Tokenize(s)
    IN  /\ Len(toks) >= 2
        /\ \A i \in 1..Len(toks) : toks[i] \in Tokens
        /\ toks[1] = FORM_OPEN
        /\ \A k \in 1..(Len(toks) - 1) : Nesting(toks, k) >= 1
        /\ Nesting(toks, Len(toks)) = 0

\* lines 76-80: ET.fromstring raises ParseError, which is caught
ParseFailed ==
    /\ pc = "parse"
    /\ ~ParsesAsXml(form_xml)
    /\ returned' = "None"
    /\ pc' = "done"
    /\ UNCHANGED <<content, form_start, form_opening, form_level, pos,
                   form_end, form_xml, bound, json_written, main_returned>>

\* lines 76-129: the text parses and the form record is built and returned
ReturnFormInfo ==
    /\ pc = "parse"
    /\ ParsesAsXml(form_xml)
    /\ returned' = "form_info"
    /\ pc' = "done"
    /\ UNCHANGED <<content, form_start, form_opening, form_level, pos,
                   form_end, form_xml, bound, json_written, main_returned>>

\* "if form_data" holds for every present value
TruthyUnlessPending(v) == v # "pending"

\* line 138, "if form_data": None is false, the form record, a dict of
\* seven keys, is true
Truthy(v) == v = "form_info"

\* main, lines 138-169: the record is saved as JSON and returned
MainSave ==
    /\ pc = "done"
    /\ Truthy(returned)
    /\ json_written' = TRUE
    /\ main_returned' = "form_data"
    /\ pc' = "exit"
    /\ UNCHANGED <<content, form_start, form_opening, form_level, pos,
                   form_end, form_xml, bound, returned>>

\* main, lines 170-172: nothing is saved and None is returned
MainFailed ==
    /\ pc = "done"
    /\ ~Truthy(returned)
    /\ main_returned' = "None"
    /\ pc' = "exit"
    /\ UNCHANGED <<content, form_start, form_opening, form_level, pos,
                   form_end, form_xml, bound, returned, json_written>>

(***************************************************************************)
(* Claims about the balanced-tag scan                                      *)
(***************************************************************************)
\* the scan has left the while loop
ScanCompleted == pc \in {"slice", "parse", "error"}

\* exact '<form>' tokens minus exact '</form>' tokens that start in a..p
Depth(c, a, p) ==
    Cardinality({i \in Occurrences(c, FORM_OPEN) : a <= i /\ i <= p})
    - Cardinality({i \in Occurrences(c, FORM_CLOSE) : a <= i /\ i <= p})

\* the '</form>' tokens at which the depth counted from a is back to zero
MatchingCloses(c, a) ==
    {p \in Occurrences(c, FORM_CLOSE) : a <= p /\ Depth(c, a, p) = 0}

\* C1: when the marker is in the document and a '<form>' precedes it, the
\* scan starts at the last '<form>' that ends at or before the marker, and
\* once the loop is left form_end is the index just past the first '</form>'
\* at which the depth of exact '<form>' and '</form>' tokens counted from
\* that start is zero (form_end stays unassigned only if there is no such
\* '</form>'); '<form_key>' and '</form_key>' do not count.
C1_ScanFindsMatchingClose ==
    (pc \in {"scan", "slice", "parse", "error"} /\ form_opening # -1) =>
        /\ form_opening \in Occurrences(content, FORM_OPEN)
        /\ form_opening + Len(FORM_OPEN) <= form_start
        /\ \A i \in Occurrences(content, FORM_OPEN) :
               i + Len(FORM_OPEN) <= form_start => i <= form_opening
        /\ ScanCompleted =>
               IF MatchingCloses(content, form_opening) = {}
               THEN "form_end" \notin bound
               ELSE /\ "form_end" \in bound
                    /\ form_end = SetMin(MatchingCloses(content, form_opening))
                                  + Len(FORM_CLOSE)

\* a scan that started at a '<form>', passed a nested form and the marker's
\* '<form_key>' tags, and found the matching '</form>'
C1_Witness ==
    /\ pc = "slice"
    /\ form_opening # -1
    /\ "form_end" \in bound
    /\ form_opening < form_start
    /\ form_start < form_end
    /\ \E i \in Occurrences(content, FORM_OPEN) :
           form_opening < i /\ i < form_end

\* C2: whenever the scan completes with a record, the record is the form
\* element around the marker: form_opening < form_start < form_end.
C2_RecordContainsMarker ==
    (pc \in {"slice", "parse"} /\ "form_end" \in bound) =>
        /\ form_opening < form_start
        /\ form_start < form_end

\* C13: if the form-key marker does not occur in the document,
\* extract_form_fields returns None straight after the search for it, with
\* no local of the tag scan, the slice or the parse assigned, and main then
\* writes no JSON file and returns None.
C13_NoMarkerReturnsNone ==
    PyFind(content, FORM_KEY_MARKER) = -1 =>
        /\ pc \in {"start", "done", "exit"}
        /\ bound \subseteq {"form_start"}
        /\ pc # "start" => returned = "None"
        /\ ~json_written
        /\ main_returned = IF pc = "exit" THEN "None" ELSE "pending"

\* main has returned for a document that has form tags but not the marker
C13_Witness ==
    /\ pc = "exit"
    /\ PyFind(content, FORM_KEY_MARKER) = -1
    /\ Occurrences(content, FORM_OPEN) # {}
    /\ Occurrences(content, FORM_CLOSE) # {}
    /\ main_returned = "None"
    /\ ~json_written

\* C14: extract_form_fields never ends with an unhandled error: whenever
\* the marker is found, form_end has been assigned by the time the slice
\* content[form_opening:form_end] is taken.
C14_FormEndAssignedBeforeSlice ==
    /\ pc # "error"
    /\ pc = "slice" => "form_end" \in bound

\* C15: the scan loop terminates: every iteration that stays in the loop
\* moves pos up by one, pos never passes len(content), the loop is left
\* only when pos has reached len(content) or at the '</form>' that brings
\* the level back to zero, and every scan that starts is left.
C15_ScanTerminates ==
    /\ [][(pc = "scan" /\ pc' = "scan") => pos' = pos + 1]_vars
    /\ [](pc = "scan" => pos <= Len(content))
    /\ [][(pc = "scan" /\ pc' # "scan") =>
              \/ pos >= Len(content)
              \/ /\ IsCloseTag(content, pos)
                 /\ form_level' = 0
                 /\ form_end' = pos + 7]_vars
    /\ [](pc = "scan" => <>(pc # "scan"))

\* a scan that started inside the document, went through a form that is
\* never closed, and left the loop at the end of the document
C15_Witness ==
    /\ pc = "slice"
    /\ form_opening # -1
    /\ form_level > 0
    /\ pos = Len(content)
    /\ pos > form_opening + Len(FORM_OPEN)
    /\ "form_end" \notin bound

(***************************************************************************)
(* extract_form_fields.py: parse_field_options and                         *)
(* parse_field_options_config.  A Python value is a record with its type   *)
(* in t and, where it has one, its value in v; a dict is the sequence of   *)
(* its key-value pairs.                                                     *)
(***************************************************************************)
PyNone == [t |-> "None"]

PyPending == [t |-> "pending"]

PyStr(s) == [t |-> "str", v |-> s]

PyInt(n) == [t |-> "int", v |-> n]

PyBool(b) == [t |-> "bool", v |-> b]

PyList(items) == [t |-> "list", v |-> items]

PyDict(pairs) == [t |-> "dict", v |-> pairs]

\* the characters str.strip() and the JSON decoder pass over
Whitespace == {" ", "\t", "\n", "\r"}

Digits == <<"0", "1", "2", "3", "4", "5", "6", "7", "8", "9">>

\* the text as it is, nothing taken off its ends
PyStripNothing(s) == s

\* s.strip()
PyStrip(s) ==
    LET inked == {i \in 1..Len(s) : s[i] \notin Whitespace}
    IN  IF inked = {} THEN <<>> ELSE SubSeq(s, SetMin(inked), SetMax(inked))

\* s.replace(old, ''): the occurrences of old are taken out from left to
\* right
RECURSIVE PyRemove(_, _)

PyRemove(s, old) ==
    IF Len(s) < Len(old) THEN s
    ELSE IF SubSeq(s, 1, Len(old)) = old
    THEN PyRemove(SubSeq(s, Len(old) + 1, Len(s)), old)
    ELSE <<Head(s)>> \o PyRemove(Tail(s), old)

\* s with the whitespace at its start taken off
SkipWhitespace(s) ==
    LET inked == {i \in 1..Len(s) : s[i] \notin Whitespace}
    IN  IF inked = {} THEN <<>> ELSE SubSeq(s, SetMin(inked), Len(s))

\* the decoder gives up
JsonError == [ok |-> FALSE, val |-> PyNone, rest |-> <<>>]

JsonOk(val, rest) == [ok |-> TRUE, val |-> val, rest |-> rest]

\* the value of a run of digits
RECURSIVE DigitsValue(_)

DigitsValue(s) ==
    IF s = <<>> THEN 0
    ELSE 10 * DigitsValue(SubSeq(s, 1, Len(s) - 1))
         + (CHOOSE d \in 0..9 : Digits[d + 1] = s[Len(s)])

IsDigit(ch) == \E d \in 1..10 : Digits[d] = ch

\* a JSON string at the start of s: the characters up to the next quote
\* (the texts of the model hold no backslash and no control character)
JsonString(s) ==
    LET body == Tail(s)
        quotes == {i \in 1..Len(body) : body[i] = "\""}
    IN  IF quotes = {} THEN JsonError
        ELSE JsonOk(PyStr(SubSeq(body, 1, SetMin(quotes) - 1)),
                    SubSeq(body, SetMin(quotes) + 1, Len(body)))

\* a JSON number at the start of s: an unsigned integer, which is "0" or
\* starts with another digit (the texts of the model hold no sign, fraction
\* or exponent)
JsonNumber(s) ==
    LET stops == {i \in 1..Len(s) : ~IsDigit(s[i])}
        n == IF s[1] = "0" THEN 1
             ELSE IF stops = {} THEN Len(s) ELSE SetMin(stops) - 1
    IN  JsonOk(PyInt(DigitsValue(SubSeq(s, 1, n))), SubSeq(s, n + 1, Len(s)))

RECURSIVE JsonValue(_), JsonItems(_, _), JsonMembers(_, _)

\* json.loads, the scanner: one value at the start of s0 after whitespace
JsonValue(s0) ==
    LET s == SkipWhitespace(s0)
    IN  IF s = <<>> THEN JsonError
        ELSE IF Head(s) = "[" THEN
            LET r == SkipWhitespace(Tail(s))
            IN  IF r # <<>> /\ Head(r) = "]"
                THEN JsonOk(PyList(<<>>), Tail(r))
                ELSE JsonItems(Tail(s), <<>>)
        ELSE IF Head(s) = "{" THEN
            LET r == SkipWhitespace(Tail(s))
            IN  IF r # <<>> /\ Head(r) = "}"
                THEN JsonOk(PyDict(<<>>), Tail(r))
                ELSE JsonMembers(Tail(s), <<>>)
        ELSE IF Head(s) = "\"" THEN JsonString(s)
        ELSE IF IsDigit(Head(s)) THEN JsonNumber(s)
        ELSE IF PySlice(s, 0, 4) = <<"n","u","l","l">>
        THEN JsonOk(PyNone, PySlice(s, 4, Len(s)))
        ELSE IF PySlice(s, 0, 4) = <<"t","r","u","e">>
        THEN JsonOk(PyBool(TRUE), PySlice(s, 4, Len(s)))
        ELSE IF PySlice(s, 0, 5) = <<"f","a","l","s","e">>
        THEN JsonOk(PyBool(FALSE), PySlice(s, 5, Len(s)))
        ELSE JsonError

\* the items of an array after its "[" or after a ","
JsonItems(s, items) ==
    LET item == JsonValue(s)
        r == SkipWhitespace(item.rest)
    IN  IF ~item.ok \/ r = <<>> THEN JsonError
        ELSE IF Head(r) = "," THEN JsonItems(Tail(r), Append(items, item.val))
        ELSE IF Head(r) = "]"
        THEN JsonOk(PyList(Append(items, item.val)), Tail(r))
        ELSE JsonError

\* the members of an object after its "{" or after a ","
JsonMembers(s, pairs) ==
    LET k == SkipWhitespace(s)
        key == IF k # <<>> /\ Head(k) = "\"" THEN JsonString(k) ELSE JsonError
        colon == SkipWhitespace(key.rest)
        member == IF key.ok /\ colon # <<>> /\ Head(colon) = ":"
                  THEN JsonValue(Tail(colon)) ELSE JsonError
        r == SkipWhitespace(member.rest)
    IN  IF ~member.ok \/ r = <<>> THEN JsonError
        ELSE IF Head(r) = ","
        THEN JsonMembers(Tail(r), Append(pairs, <<key.val.v, member.val>>))
        ELSE IF Head(r) = "}"
        THEN JsonOk(PyDict(Append(pairs, <<key.val.v, member.val>>)), Tail(r))
        ELSE JsonError

\* json.loads(s): one value and nothing but whitespace after it
JsonLoads(s) ==
    LET r == JsonValue(s)
    IN  IF r.ok /\ SkipWhitespace(r.rest) = <<>> THEN r ELSE JsonError

CDATA_OPEN == <<"<","!","[","C","D","A","T","A","[">>

CDATA_CLOSE == <<"]","]",">">>

\* lines 18 and 34: the two replace calls
CleanStr(s) == PyRemove(PyRemove(s, CDATA_OPEN), CDATA_CLOSE)

\* "not options_str": None and the empty string are false
Falsy(x) == x = PyNone \/ x = PyStr(<<>>)

\* lines 11-26
parse_field_options(text) ==
    IF Falsy(text) THEN PyList(<<>>)
    ELSE LET clean_str == CleanStr(text.v)
         IN  IF PyStrip(clean_str) = <<>> THEN PyList(<<>>)
             ELSE IF JsonLoads(clean_str).ok THEN JsonLoads(clean_str).val
             ELSE text

\* lines 28-41
parse_field_options_config(field_options_str) ==
    IF Falsy(field_options_str) THEN PyDict(<<>>)
    ELSE LET clean_str == CleanStr(field_options_str.v)
         IN  IF PyStrip(clean_str) = <<>> THEN PyDict(<<>>)
             ELSE IF JsonLoads(clean_str).ok THEN JsonLoads(clean_str).val
             ELSE PyDict(<<>>)

\* the pieces the texts handed to the two functions are put together from
TextPieces ==
    {CDATA_OPEN, CDATA_CLOSE, <<" ">>, <<"[">>, <<"]">>, <<",">>, <<"1">>, <<"\"","a","\"">>,
     <<"{","\"","h","i","d","e","_","f","i","e","l","d","\"",":","1","}">>, <<"{">>, <<"}">>}

MaxPieces == 3

\* the text of an options or field_options element: None for an element
\* without text
ElementTexts ==
    {PyNone} \cup
    {PyStr(Flatten(ps)) :
         ps \in UNION {[1..n -> TextPieces] : n \in 0..MaxPieces}}

IdleParse ==
    /\ options_str = PyNone
    /\ parse_fn = "none"
    /\ parse_result = PyPending

InitParse ==
    /\ options_str \in ElementTexts
    /\ parse_fn = "none"
    /\ parse_result = PyPending

\* line 113: parse_field_options(options_elem.text)
ParseFieldOptions ==
    /\ parse_fn = "none"
    /\ parse_fn' = "parse_field_options"
    /\ parse_result' = parse_field_options(options_str)
    /\ UNCHANGED options_str

\* line 120: parse_field_options_config(field_options_elem.text)
ParseFieldOptionsConfig ==
    /\ parse_fn = "none"
    /\ parse_fn' = "parse_field_options_config"
    /\ parse_result' = parse_field_options_config(options_str)
    /\ UNCHANGED options_str

(***************************************************************************)
(* Claims about the two parse functions                                    *)
(***************************************************************************)
\* every character of s is whitespace
OnlyWhitespace(s) == \A i \in 1..Len(s) : s[i] \in Whitespace

\* the input is None, empty, or only whitespace once the CDATA wrapper is
\* taken away
EmptyInput(x) == x = PyNone \/ OnlyWhitespace(CleanStr(x.v))

\* C18: parse_field_options returns [] when its input is None, empty or
\* only whitespace after the CDATA wrapper is removed, the decoded value
\* when the cleaned text is valid JSON, and the input string itself when the
\* decoding fails; parse_field_options_config does the same with {} in the
\* empty case and in the failure case.
C18_ParseFallbacks ==
    parse_fn # "none" =>
        LET of_options == parse_fn = "parse_field_options"
        IN  IF EmptyInput(options_str)
            THEN parse_result =
                     IF of_options THEN PyList(<<>>) ELSE PyDict(<<>>)
            ELSE IF JsonLoads(CleanStr(options_str.v)).ok
            THEN parse_result = JsonLoads(CleanStr(options_str.v)).val
            ELSE parse_result =
                     IF of_options THEN options_str ELSE PyDict(<<>>)

\* parse_field_options was given a text in a CDATA wrapper that is not JSON
\* and gave the text back with the wrapper still on it
C18_Witness ==
    /\ parse_fn = "parse_field_options"
    /\ options_str # PyNone
    /\ Occurrences(options_str.v, CDATA_OPEN) # {}
    /\ ~OnlyWhitespace(CleanStr(options_str.v))
    /\ ~JsonLoads(CleanStr(options_str.v)).ok
    /\ parse_result = options_str

\* C19: for every input string parse_field_options_config returns a
\* mapping, so that field_config supports the lookups made on it.
C19_ConfigIsMapping ==
    parse_fn = "parse_field_options_config" => parse_result.t = "dict"

(***************************************************************************)
(* extract_form_fields.py: the form record built from the parsed form.     *)
(* An element is a record of its sub-elements: Absent when find() returns  *)
(* None, otherwise the text of the sub-element, which is None when the     *)
(* sub-element is empty.                                                    *)
(***************************************************************************)
Absent == [t |-> "absent"]

\* a field element without sub-elements
EmptyField ==
    [id |-> Absent, field_key |-> Absent, name |-> Absent,
     description |-> Absent, type |-> Absent, default_value |-> Absent,
     field_order |-> Absent, required |-> Absent, options |-> Absent,
     field_options |-> Absent]

\* the field elements of the model's forms
FieldElements ==
    {EmptyField,
     [id |-> PyStr(<<"1">>), field_key |-> PyStr(<<"k","1">>),
      name |-> PyStr(<<"N","a","m","e">>), description |-> PyStr(<<"d">>),
      type |-> PyStr(<<"t","e","x","t">>), default_value |-> PyStr(<<"v">>),
      field_order |-> PyStr(<<"2">>), required |-> PyStr(<<"1">>),
      options |-> PyStr(<<"[","\"","a","\"","]">>),
      field_options |-> PyStr(<<"{","\"","h","i","d","e","_","f","i","e","l","d","\"",":","1","}">>)],
     [EmptyField EXCEPT !.id = PyStr(<<"2">>), !.name = PyNone,
                        !.field_order = PyStr(<<"1">>),
                        !.required = PyStr(<<"0">>), !.options = PyNone,
                        !.field_options = PyStr(<<"[","]">>)],
     [EmptyField EXCEPT !.id = PyStr(<<"3">>), !.type = PyStr(<<"r","a","d","i","o">>),
                        !.field_order = PyStr(<<"2">>),
                        !.required = PyStr(<<"t","r","u","e">>),
                        !.options = PyStr(<<"a",":","0",":","{","}">>)],
     [EmptyField EXCEPT !.id = PyStr(<<"4">>), !.type = PyNone,
                        !.field_order = PyStr(<<" ","1","0"," ">>),
                        !.required = PyNone],
     [EmptyField EXCEPT !.id = PyStr(<<"5">>), !.field_order = PyStr(<<"a","b","c">>)],
     [EmptyField EXCEPT !.id = PyStr(<<"6">>), !.field_order = PyNone]}

MaxElements == 3

\* the parsed forms: with every sub-element of the form or with none, and
\* up to MaxElements field elements
Roots ==
    {[id |-> m, form_key |-> m, name |-> m, description |-> m,
      created_at |-> m, status |-> m, field |-> fs_] :
         m \in {Absent, PyStr(<<"f">>)},
         fs_ \in UNION {[1..n -> FieldElements] : n \in 0..MaxElements}}

\* e.find(tag).text if e.find(tag) is not None else default
TextOr(text, default) == IF text = Absent THEN default ELSE text

\* int(text): a TypeError for None, a ValueError unless the text is digits
\* with an optional sign, whitespace around them allowed (the texts of the
\* model hold no underscore)
IntOf(text) ==
    IF text = PyNone THEN [ok |-> FALSE, val |-> 0]
    ELSE LET s == PyStrip(text.v)
             signed == s # <<>> /\ s[1] \in {"-", "+"}
             digits == IF signed THEN Tail(s) ELSE s
         IN  IF digits = <<>> \/ \E i \in 1..Len(digits) : ~IsDigit(digits[i])
             THEN [ok |-> FALSE, val |-> 0]
             ELSE [ok |-> TRUE,
                   val |-> IF signed /\ s[1] = "-" THEN 0 - DigitsValue(digits)
                           ELSE DigitsValue(digits)]

\* line 107 raises for this field element
FieldOrderRaises(field) ==
    field.field_order # Absent /\ ~IntOf(field.field_order).ok

\* the required flag of a text that is not empty
RequiredIfTruthy(text) == ~Falsy(text)

\* line 108: field.find('required').text == '1'
RequiredIfOne(text) == text = PyStr(<<"1">>)

\* lines 98-122: field_data of one field element
field_data(field) ==
    [id |-> TextOr(field.id, PyStr(<<>>)),
     field_key |-> TextOr(field.field_key, PyStr(<<>>)),
     name |-> TextOr(field.name, PyStr(<<>>)),
     description |-> TextOr(field.description, PyStr(<<>>)),
     type |-> TextOr(field.type, PyStr(<<>>)),
     default_value |-> TextOr(field.default_value, PyStr(<<>>)),
     field_order |-> IF field.field_order # Absent
                     THEN PyInt(IntOf(field.field_order).val) ELSE PyInt(0),
     required |-> IF field.required # Absent
                  THEN PyBool(RequiredIfOne(field.required))
                  ELSE PyBool(FALSE),
     options |-> IF field.options # Absent
                 THEN parse_field_options(field.options) ELSE PyList(<<>>),
     field_config |-> IF field.field_options # Absent
                      THEN parse_field_options_config(field.field_options)
                      ELSE PyDict(<<>>)]

\* x put into the sorted list before the records of the same field_order
InsertBeforeEqual(sorted, x) ==
    LET n == Cardinality({i \in 1..Len(sorted) :
                              sorted[i].field_order.v < x.field_order.v})
    IN  SubSeq(sorted, 1, n) \o <<x>> \o SubSeq(sorted, n + 1, Len(sorted))

\* x put into the sorted list after the records whose field_order is not
\* above its own: list.sort is stable
InsertSorted(sorted, x) ==
    LET n == Cardinality({i \in 1..Len(sorted) :
                              sorted[i].field_order.v <= x.field_order.v})
    IN  SubSeq(sorted, 1, n) \o <<x>> \o SubSeq(sorted, n + 1, Len(sorted))

\* line 127: form_info['fields'].sort(key=lambda x: x['field_order'])
RECURSIVE SortByFieldOrder(_)

SortByFieldOrder(list) ==
    IF list = <<>> THEN <<>>
    ELSE InsertSorted(SortByFieldOrder(SubSeq(list, 1, Len(list) - 1)),
                      list[Len(list)])

\* main has printed nothing of the summary
NoSummary == [total |-> 0, required |-> 0, optional |-> 0, types |-> <<>>]

IdleFields ==
    /\ root_form = PyNone
    /\ form_info = PyPending
    /\ fields_pc = "start"
    /\ summary = NoSummary

InitFields ==
    /\ root_form \in Roots
    /\ form_info = PyPending
    /\ fields_pc = "start"
    /\ summary = NoSummary

\* lines 83-95: the form's own attributes, and an empty list of fields
BuildFormInfo ==
    /\ fields_pc = "start"
    /\ form_info' =
           [form_id |-> TextOr(root_form.id, PyStr(<<>>)),
            form_key |-> TextOr(root_form.form_key, PyStr(<<>>)),
            name |-> TextOr(root_form.name, PyStr(<<>>)),
            description |-> TextOr(root_form.description, PyStr(<<>>)),
            created_at |-> TextOr(root_form.created_at, PyStr(<<>>)),
            status |-> TextOr(root_form.status, PyStr(<<>>)),
            fields |-> <<>>]
    /\ fields_pc' = "loop"
    /\ UNCHANGED <<root_form, summary>>

\* lines 97-124: one iteration of the loop over root.findall('field')
ExtractField ==
    /\ fields_pc = "loop"
    /\ Len(form_info.fields) < Len(root_form.field)
    /\ LET field == root_form.field[Len(form_info.fields) + 1]
       IN  /\ ~FieldOrderRaises(field)
           /\ form_info' =
                  [form_info EXCEPT !.fields = Append(@, field_data(field))]
    /\ UNCHANGED <<root_form, fields_pc, summary>>

\* line 107: int() raises on the text of field_order, and nothing catches it
FieldOrderError ==
    /\ fields_pc = "loop"
    /\ Len(form_info.fields) < Len(root_form.field)
    /\ FieldOrderRaises(root_form.field[Len(form_info.fields) + 1])
    /\ fields_pc' = "error"
    /\ UNCHANGED <<root_form, form_info, summary>>

\* lines 126-129: the fields are sorted and the record is returned
SortAndReturn ==
    /\ fields_pc = "loop"
    /\ Len(form_info.fields) = Len(root_form.field)
    /\ form_info' = [form_info EXCEPT !.fields = SortByFieldOrder(@)]
    /\ fields_pc' = "returned"
    /\ UNCHANGED <<root_form, summary>>

\* analyze_questionnaire.py lines 17-22: the keys read from the record
ReadFormKeys == {"fields", "name", "form_key"}

\* the keys of a field with the configuration read under the name of its
\* XML element
ReadFieldKeysXmlNames ==
    {"required", "type", "name", "field_key", "field_order", "options",
     "field_options", "description", "default_value"}

\* analyze_questionnaire.py lines 24-135: the keys read from a field
ReadFieldKeys ==
    {"required", "type", "name", "field_key", "field_order", "options",
     "field_config", "description", "default_value"}

(***************************************************************************)
(* Claims about the form record                                            *)
(***************************************************************************)
\* the field records in the order of the field elements of the document
InDocumentOrder ==
    [i \in 1..Len(root_form.field) |-> field_data(root_form.field[i])]

\* the records of list whose field_order is n
WithOrder(list, n) ==
    LET Test(f) == f.field_order.v = n
    IN  SelectSeq(list, Test)

\* C16: the fields list that is returned is in non-decreasing field_order,
\* and the fields of one field_order are the fields of that field_order in
\* the order of the document.
C16_FieldsSortedStable ==
    fields_pc = "returned" =>
        LET list == form_info.fields
        IN  /\ Len(list) = Len(root_form.field)
            /\ \A i, j \in 1..Len(list) :
                   i < j => list[i].field_order.v <= list[j].field_order.v
            /\ \A f \in {list[i] : i \in 1..Len(list)} :
                   WithOrder(list, f.field_order.v)
                       = WithOrder(InDocumentOrder, f.field_order.v)

\* a form is returned whose first and last field elements have the same
\* field_order and differ, with a field of a lower field_order between them
C16_Witness ==
    /\ fields_pc = "returned"
    /\ Len(root_form.field) = 3
    /\ form_info.fields[2].field_order.v = form_info.fields[3].field_order.v
    /\ form_info.fields[2] # form_info.fields[3]
    /\ form_info.fields[1] = field_data(root_form.field[2])
    /\ form_info.fields[1].field_order.v < form_info.fields[2].field_order.v

\* C17: every attribute of a field record is the text of the sub-element of
\* its name when the element has it (the integer of the text for
\* field_order, whether the text is '1' for required, the parsed text for
\* options and field_config) and the fixed default when it has not.
C17_AttributesOrDefaults ==
    fields_pc = "loop" =>
        \A i \in 1..Len(form_info.fields) :
            LET field == root_form.field[i]
                data == form_info.fields[i]
            IN  /\ \A k \in {"id", "field_key", "name", "description", "type",
                            "default_value"} :
                       data[k] = IF field[k] = Absent THEN PyStr(<<>>)
                                 ELSE field[k]
                /\ data.field_order =
                       IF field.field_order = Absent THEN PyInt(0)
                       ELSE PyInt(IntOf(field.field_order).val)
                /\ data.required =
                       IF field.required = Absent THEN PyBool(FALSE)
                       ELSE PyBool(field.required = PyStr(<<"1">>))
                /\ data.options =
                       IF field.options = Absent THEN PyList(<<>>)
                       ELSE parse_field_options(field.options)
                /\ data.field_config =
                       IF field.field_options = Absent THEN PyDict(<<>>)
                       ELSE parse_field_options_config(field.field_options)

\* the loop has been through a field element without sub-elements and one
\* whose required is there and is not '1'
C17_Witness ==
    /\ fields_pc = "loop"
    /\ Len(form_info.fields) = 2
    /\ root_form.field[1] = EmptyField
    /\ root_form.field[2].required \notin {Absent, PyStr(<<"1">>), PyNone}
    /\ form_info.fields[2].required = PyBool(FALSE)
    /\ form_info.fields[1].field_order = PyInt(0)

\* C20: the record extract_form_fields returns, which main writes as JSON,
\* has every key analyze_questionnaire and generate_field_summary read: name,
\* form_key and fields of the form, and the nine keys of every field.
C20_RecordHasKeysRead ==
    fields_pc = "returned" =>
        /\ ReadFormKeys \subseteq DOMAIN form_info
        /\ \A i \in 1..Len(form_info.fields) :
               ReadFieldKeys \subseteq DOMAIN form_info.fields[i]

\* a form with two fields is returned, one of them without sub-elements
C20_Witness ==
    /\ fields_pc = "returned"
    /\ Len(form_info.fields) = 2
    /\ EmptyField \in {root_form.field[1], root_form.field[2]}
    /\ root_form.name = Absent
    /\ root_form.field[1] # root_form.field[2]

(***************************************************************************)
(* The line counters: accurate_count.py, count_lines.py, final_count.py,   *)
(* simple_count.py (os.walk) and count_code_lines.py (glob)                *)
(***************************************************************************)
DOT == <<".">>

SLASH == <<"/">>

\* a Python dict is a function on its keys
EmptyDict == [k \in {} |-> 0]

\* d[k] = n in place of d[k] += n
IncAssign(d, k, n) == [x \in DOMAIN d \cup {k} |-> IF x = k THEN n ELSE d[x]]

\* d[k] = d.get(k, 0) + n
Inc(d, k, n) ==
    [x \in DOMAIN d \cup {k} |->
        (IF x \in DOMAIN d THEN d[x] ELSE 0) + (IF x = k THEN n ELSE 0)]

RECURSIVE SumValues(_)
\* sum(d.values())
SumValues(d) ==
    IF DOMAIN d = {} THEN 0
    ELSE LET k == CHOOSE x \in DOMAIN d : TRUE
         IN  d[k] + SumValues([x \in DOMAIN d \ {k} |-> d[x]])

\* the offset of the last '.' of s, or -1
LastDot(s) == PyRFind(s, DOT, Len(s))

\* os.path.splitext(name)[1]: the text from the last dot on, unless only
\* dots stand before that dot
SplitExt(name) ==
    LET d == LastDot(name)
    IN  IF d # -1 /\ \E i \in 1..d : name[i] # "."
        THEN PySlice(name, d, Len(name))
        ELSE <<>>

\* name.split('.')[-1]: the text after the last dot, the whole name if it
\* has no dot
SplitLast(name) == PySlice(name, LastDot(name) + 1, Len(name))

\* s.replace(ch, '') for a one-character ch
RemoveChar(s, ch) == LET Keep(x) == x # ch IN SelectSeq(s, Keep)

RECURSIVE LStrip(_, _)
\* s.lstrip(ch)
LStrip(s, ch) ==
    IF s # <<>> /\ Head(s) = ch THEN LStrip(Tail(s), ch) ELSE s

\* s.split(ch)[0]
SplitFirst(s, ch) ==
    IF PyFind(s, <<ch>>) = -1 THEN s ELSE PySlice(s, 0, PyFind(s, <<ch>>))

RECURSIVE JoinPath(_, _)
\* os.path.join(root, d1, ..., dn)
JoinPath(root, comps) ==
    IF comps = <<>> THEN root
    ELSE JoinPath(root \o SLASH \o Head(comps), Tail(comps))

\* the list cut down to the two names count_code_lines.py looks for
exclude_dirs_short == {<<"n","o","d","e","_","m","o","d","u","l","e","s">>, <<".","n","e","x","t">>}

\* exclude_dirs of the four os.walk counters
exclude_dirs ==
    {<<"n","o","d","e","_","m","o","d","u","l","e","s">>, <<".","n","e","x","t">>, <<"d","i","s","t">>, <<"b","u","i","l","d">>, <<"t","e","m","p","_","d","i","s","a","b","l","e","d">>, <<".","g","i","t">>}

\* accurate_count.py, final_count.py, simple_count.py
extensions == {<<".","t","s">>, <<".","t","s","x">>, <<".","j","s">>, <<".","j","s","x">>}

\* count_lines.py
bare_extensions == {<<"t","s">>, <<"t","s","x">>, <<"j","s">>, <<"j","s","x">>}

\* count_code_lines.py: the glob patterns are '*' followed by these
glob_suffixes == {<<".","t","s">>, <<".","t","s","x">>, <<".","j","s">>, <<".","j","s","x">>}

Counters ==
    {"accurate_count", "count_lines", "final_count", "simple_count",
     "count_code_lines"}

WalkCounters == Counters \ {"count_code_lines"}

\* a file of the tree: the directories from the walk root down to it, its
\* name, whether open() succeeds, whether its bytes are valid UTF-8, and its
\* number of lines
File(d, n, r, u, l) ==
    [dir |-> d, name |-> n, readable |-> r, utf8 |-> u, lines |-> l]

FileUniverse ==
    { File(<<<<"s","r","c">>>>, <<"a",".","t","s">>, TRUE, TRUE, 2),
      File(<<<<"n","o","d","e","_","m","o","d","u","l","e","s">>, <<"l","i","b">>>>, <<"b",".","j","s">>, TRUE, TRUE, 3),
      File(<<<<"b","u","i","l","d","e","r">>>>, <<"c",".","t","s","x">>, TRUE, TRUE, 1),
      File(<<<<"d","i","s","t">>>>, <<"d",".","j","s">>, TRUE, TRUE, 4),
      File(<<<<"s","r","c">>>>, <<"t","s">>, TRUE, TRUE, 1),
      File(<<<<"s","r","c">>>>, <<".","t","s">>, TRUE, TRUE, 2),
      File(<<<<"s","r","c">>>>, <<"e",".","t","x","t">>, TRUE, TRUE, 5),
      File(<<<<"s","r","c">>>>, <<"f",".","j","s","x">>, FALSE, TRUE, 3),
      File(<<<<".","g","i","t">>>>, <<"g",".","j","s">>, TRUE, TRUE, 1),
      File(<<<<"s","r","c">>>>, <<"h",".","n","e","x","t",".","j","s">>, TRUE, TRUE, 2),
      File(<<<<".","c","a","c","h","e">>>>, <<"i",".","t","s">>, TRUE, TRUE, 1),
      File(<<>>, <<"j",".","t","s">>, TRUE, FALSE, 3),
      File(<<<<"s","r","c">>, <<"b","u","i","l","d">>>>, <<"k",".","t","s">>, TRUE, TRUE, 2) }

MaxFiles == 2

Trees == {t \in SUBSET FileUniverse : Cardinality(t) <= MaxFiles}

\* the root os.walk('.') reports for the directory of f
WalkRoot(f) == JoinPath(DOT, f.dir)

\* dirs[:] = [d for d in dirs if d not in exclude_dirs]: os.walk does not
\* descend into a directory whose name is on the list
Pruned(f) == \E i \in 1..Len(f.dir) : f.dir[i] \in exclude_dirs

\* if any(exc in root for exc in exclude_dirs): continue
Skipped(f) == \E exc \in exclude_dirs : PyIn(exc, WalkRoot(f))

\* the walk reaches the files of the directory of f
Walked(f) == ~Pruned(f) /\ ~Skipped(f)

\* any(file.endswith(ext) for ext in extensions)
EndsWithExtension(name) == \E ext \in extensions : PyEndsWith(name, ext)

\* final_count.py line 31
FinalMatches(name) == EndsWithExtension(name)

\* the extension taken the way count_lines.py takes it
SimpleMatchesBare(name) == SplitLast(name) \in bare_extensions

\* simple_count.py line 18
SimpleMatches(name) == EndsWithExtension(name)

\* final_count.py lines 26-28 and 49, with directory = '.'
DirKey(f) ==
    LET stripped == LStrip(RemoveChar(WalkRoot(f), "."), "/")
        relative_dir == IF stripped = <<>> THEN <<"r","o","o","t">> ELSE stripped
    IN  IF PyIn(SLASH, relative_dir) THEN SplitFirst(relative_dir, "/")
        ELSE relative_dir

\* glob.glob('**/*<suffix>', recursive=True) yields f: hidden names match
\* neither '**' nor '*'
Hidden(name) == name # <<>> /\ Head(name) = "."

GlobYields(f) ==
    /\ \A i \in 1..Len(f.dir) : ~Hidden(f.dir[i])
    /\ ~Hidden(f.name)
    /\ \E suf \in glob_suffixes : PyEndsWith(f.name, suf)

\* the path glob reports for f
GlobPath(f) ==
    IF f.dir = <<>> THEN f.name
    ELSE JoinPath(Head(f.dir), Tail(f.dir) \o <<f.name>>)

\* if 'node_modules' in filepath or '.next' in filepath: continue
GlobSkipped(f) ==
    PyIn(<<"n","o","d","e","_","m","o","d","u","l","e","s">>, GlobPath(f)) \/ PyIn(<<".","n","e","x","t">>, GlobPath(f))

IdleCount ==
    /\ tree = {}
    /\ script = "none"
    /\ remaining = {}
    /\ total_files = 0
    /\ total_lines = 0
    /\ file_counts = EmptyDict
    /\ line_counts = EmptyDict
    /\ by_directory = EmptyDict
    /\ tallied = EmptyDict
    /\ report = [c \in Counters |-> [done |-> FALSE, files |-> 0, lines |-> 0]]

InitCount ==
    /\ tree \in Trees
    /\ script = "none"
    /\ remaining = {}
    /\ total_files = 0
    /\ total_lines = 0
    /\ file_counts = EmptyDict
    /\ line_counts = EmptyDict
    /\ by_directory = EmptyDict
    /\ tallied = EmptyDict
    /\ report = [c \in Counters |-> [done |-> FALSE, files |-> 0, lines |-> 0]]

\* the counters' initial dicts: accurate_count.py lines 6-7, count_lines.py
\* lines 22-23; the other three start from empty dicts
InitialCounts(c) ==
    IF c = "accurate_count" THEN [e \in extensions |-> 0]
    ELSE IF c = "count_lines" THEN [e \in bare_extensions |-> 0]
    ELSE EmptyDict

\* a counter is started in the directory; it is a process of its own, so
\* every tally starts from the script's initial values
StartCounter(c) ==
    /\ script = "none"
    /\ ~report[c].done
    /\ script' = c
    /\ remaining' = tree
    /\ total_files' = 0
    /\ total_lines' = 0
    /\ file_counts' = InitialCounts(c)
    /\ line_counts' = InitialCounts(c)
    /\ by_directory' = EmptyDict
    /\ tallied' = EmptyDict
    /\ UNCHANGED <<tree, report>>

\* the running counter meets f and leaves every tally alone
PassOver(f) ==
    /\ remaining' = remaining \ {f}
    /\ UNCHANGED <<tree, script, total_files, total_lines, file_counts,
                   line_counts, by_directory, tallied, report>>

\* accurate_count.py lines 15-35, for one file of the walk
AccurateCountFile(f) ==
    /\ script = "accurate_count"
    /\ f \in remaining
    /\ IF Walked(f) /\ SplitExt(f.name) \in DOMAIN file_counts /\ f.readable
       THEN /\ file_counts' = Inc(file_counts, SplitExt(f.name), 1)
            /\ line_counts' = Inc(line_counts, SplitExt(f.name), f.lines)
            /\ total_files' = total_files + 1
            /\ total_lines' = total_lines + f.lines
            /\ tallied' = Inc(tallied, f, 1)
            /\ remaining' = remaining \ {f}
            /\ UNCHANGED <<tree, script, by_directory, report>>
       ELSE PassOver(f)

\* count_lines.py lines 5-11: 0 for a file that cannot be read
count_lines_in_file(f) == IF f.readable THEN f.lines ELSE 0

\* count_lines.py lines 26-43, for one file of the walk
CountLinesFile(f) ==
    /\ script = "count_lines"
    /\ f \in remaining
    /\ IF Walked(f) /\ SplitLast(f.name) \in bare_extensions
       THEN /\ file_counts' = Inc(file_counts, SplitLast(f.name), 1)
            /\ line_counts' =
                   Inc(line_counts, SplitLast(f.name), count_lines_in_file(f))
            /\ total_lines' = total_lines + count_lines_in_file(f)
            /\ tallied' = Inc(tallied, f, 1)
            /\ remaining' = remaining \ {f}
            /\ UNCHANGED <<tree, script, total_files, by_directory, report>>
       ELSE PassOver(f)

\* by_directory[k]['files'] += 1; by_directory[k]['lines'] += n
IncDir(d, k, n) ==
    [x \in DOMAIN d \cup {k} |->
        LET old == IF x \in DOMAIN d THEN d[x] ELSE [files |-> 0, lines |-> 0]
        IN  IF x = k
            THEN [files |-> old.files + 1, lines |-> old.lines + n]
            ELSE old]

\* final_count.py lines 18-63, for one file of the walk
FinalCountFile(f) ==
    /\ script = "final_count"
    /\ f \in remaining
    /\ IF Walked(f) /\ FinalMatches(f.name) /\ f.readable
       THEN /\ total_files' = total_files + 1
            /\ total_lines' = total_lines + f.lines
            /\ file_counts' = Inc(file_counts, SplitExt(f.name), 1)
            /\ line_counts' = Inc(line_counts, SplitExt(f.name), f.lines)
            /\ by_directory' = IncDir(by_directory, DirKey(f), f.lines)
            /\ tallied' = Inc(tallied, f, 1)
            /\ remaining' = remaining \ {f}
            /\ UNCHANGED <<tree, script, report>>
       ELSE PassOver(f)

\* simple_count.py lines 11-31, for one file of the walk
SimpleCountFile(f) ==
    /\ script = "simple_count"
    /\ f \in remaining
    /\ IF Walked(f) /\ SimpleMatches(f.name) /\ f.readable
       THEN /\ total_lines' = total_lines + f.lines
            /\ total_files' = total_files + 1
            /\ line_counts' = Inc(line_counts, SplitExt(f.name), f.lines)
            /\ file_counts' = Inc(file_counts, SplitExt(f.name), 1)
            /\ tallied' = Inc(tallied, f, 1)
            /\ remaining' = remaining \ {f}
            /\ UNCHANGED <<tree, script, by_directory, report>>
       ELSE PassOver(f)

\* count_code_lines.py lines 11-24, for one file: the UTF-8 decoding is
\* strict here, so a file with invalid bytes raises and is not counted
CountCodeLinesFile(f) ==
    /\ script = "count_code_lines"
    /\ f \in remaining
    /\ IF GlobYields(f) /\ ~GlobSkipped(f) /\ f.readable /\ f.utf8
       THEN /\ total_lines' = total_lines + f.lines
            /\ total_files' = total_files + 1
            /\ tallied' = Inc(tallied, f, 1)
            /\ remaining' = remaining \ {f}
            /\ UNCHANGED <<tree, script, file_counts, line_counts,
                           by_directory, report>>
       ELSE PassOver(f)

\* the number of files a counter prints: count_lines.py line 55 prints
\* sum(file_counts.values()), the others print total_files
ReportedFiles ==
    IF script = "count_lines" THEN SumValues(file_counts) ELSE total_files

\* the walk is over and the totals are printed
FinishCounter ==
    /\ script # "none"
    /\ remaining = {}
    /\ report' = [report EXCEPT ![script] =
                     [done |-> TRUE, files |-> ReportedFiles,
                      lines |-> total_lines]]
    /\ script' = "none"
    /\ UNCHANGED <<tree, remaining, total_files, total_lines, file_counts,
                   line_counts, by_directory, tallied>>

(***************************************************************************)
(* The files the scripts read and write.  A path is a directory and a file *)
(* name; ~ is /Users/blakelange, "cwd" is the directory a script is run in *)
(***************************************************************************)
Path(d, n) == [dir |-> d, name |-> n]

\* extract_form_fields.py line 132
XML_FILE == Path("Downloads", <<"s","h","a","k","a","p","t",".","f","o","r","m","i","d","a","b","l","e",".","2","0","2","3","-","0","9","-","1","0",".","x","m","l">>)

\* extract_form_fields.py line 140, analyze_questionnaire.py line 150
FIELDS_JSON == Path("vibelux-app", <<"s","h","a","k","a","p","t","_","q","u","e","s","t","i","o","n","n","a","i","r","e","_","f","i","e","l","d","s",".","j","s","o","n">>)

\* analyze_questionnaire.py line 222
SUMMARY_JSON == Path("vibelux-app", <<"s","h","a","k","a","p","t","_","q","u","e","s","t","i","o","n","n","a","i","r","e","_","s","u","m","m","a","r","y",".","j","s","o","n">>)

\* create-energy-flow-diagram.py line 187, create-energy-flow-vibelux.py
\* line 226, energy-flow-simple.py line 119, energy-optimization-flow.py
\* line 144
ENERGY_FLOW_JPG == Path("Downloads", <<"v","i","b","e","l","u","x","_","e","n","e","r","g","y","_","o","p","t","i","m","i","z","a","t","i","o","n","_","f","l","o","w",".","j","p","g">>)

\* the energy diagram of create-flow-diagrams.py saved under the name the
\* four energy-flow scripts use
FLOW_FIXED_JPG_UNFIXED == ENERGY_FLOW_JPG

\* create-flow-diagrams.py lines 297 and 305
FLOW_FIXED_JPG == Path("Downloads", <<"v","i","b","e","l","u","x","_","e","n","e","r","g","y","_","o","p","t","i","m","i","z","a","t","i","o","n","_","f","l","o","w","_","f","i","x","e","d",".","j","p","g">>)

REVENUE_JPG == Path("Downloads", <<"v","i","b","e","l","u","x","_","r","e","v","e","n","u","e","_","s","h","a","r","i","n","g","_","m","o","d","e","l",".","j","p","g">>)

\* create-comprehensive-pitch-deck.py lines 335-345 and 364
PITCH_SLIDES ==
    { Path("Downloads", <<"v","i","b","e","l","u","x","_","p","i","t","c","h","_","t","i","t","l","e",".","j","p","g">>),
      Path("Downloads", <<"v","i","b","e","l","u","x","_","p","i","t","c","h","_","c","f","d","_","a","n","a","l","y","s","i","s",".","j","p","g">>),
      Path("Downloads", <<"v","i","b","e","l","u","x","_","p","i","t","c","h","_","a","i","_","m","l",".","j","p","g">>),
      Path("Downloads", <<"v","i","b","e","l","u","x","_","p","i","t","c","h","_","e","n","e","r","g","y",".","j","p","g">>),
      Path("Downloads", <<"v","i","b","e","l","u","x","_","p","i","t","c","h","_","p","l","a","t","f","o","r","m",".","j","p","g">>),
      Path("Downloads", <<"v","i","b","e","l","u","x","_","p","i","t","c","h","_","j","o","u","r","n","e","y",".","j","p","g">>) }

PITCH_DECK_JPG == Path("Downloads", <<"v","i","b","e","l","u","x","_","p","i","t","c","h","_","d","e","c","k","_","c","o","m","p","l","e","t","e",".","j","p","g">>)

\* create_vibelux_system_diagram_simple.py line 295
SYSTEM_DIAGRAM_JPG == Path("vibelux-app", <<"v","i","b","e","l","u","x","_","s","y","s","t","e","m","_","a","r","c","h","i","t","e","c","t","u","r","e","_","f","i","n","a","l",".","j","p","g">>)

\* create_vibelux_architecture_pdf.py line 727
ARCHITECTURE_PDF == Path("Downloads", <<"V","i","b","e","L","u","x","_","S","y","s","t","e","m","_","A","r","c","h","i","t","e","c","t","u","r","e","_","C","o","m","p","l","e","t","e",".","p","d","f">>)

\* create_vibelux_architecture_simple.py line 1808
ARCHITECTURE_HTML == Path("Downloads", <<"V","i","b","e","L","u","x","_","S","y","s","t","e","m","_","A","r","c","h","i","t","e","c","t","u","r","e","_","C","o","m","p","l","e","t","e",".","h","t","m","l">>)

\* the statistics saved under a name the counters take for source code
CODE_STATISTICS_JS == Path("cwd", <<"c","o","d","e","_","s","t","a","t","i","s","t","i","c","s",".","j","s">>)

\* final_count.py line 96
CODE_STATISTICS == Path("cwd", <<"c","o","d","e","_","s","t","a","t","i","s","t","i","c","s",".","j","s","o","n">>)

\* a source file of the application the counters are run on
SOURCE_FILE == Path("cwd", <<"p","a","g","e",".","t","s","x">>)

\* the font the three PIL scripts try to load
FONT_FILE == Path("/System/Library/Fonts", <<"H","e","l","v","e","t","i","c","a",".","t","t","c">>)

OutsideFiles == {XML_FILE, SOURCE_FILE, FONT_FILE}

Paths ==
    OutsideFiles \cup PITCH_SLIDES \cup
    {FIELDS_JSON, SUMMARY_JSON, ENERGY_FLOW_JPG, FLOW_FIXED_JPG, REVENUE_JPG,
     PITCH_DECK_JPG, SYSTEM_DIAGRAM_JPG, ARCHITECTURE_PDF, ARCHITECTURE_HTML,
     CODE_STATISTICS}

EnergyFlowScripts ==
    {"create-energy-flow-diagram.py", "create-energy-flow-vibelux.py",
     "energy-flow-simple.py", "energy-optimization-flow.py"}

\* the scripts that only draw or format and save
Generators ==
    EnergyFlowScripts \cup
    {"create-flow-diagrams.py", "create_vibelux_system_diagram_simple.py",
     "create_vibelux_architecture_pdf.py", "create_vibelux_architecture_simple.py"}

CounterScripts ==
    {"accurate_count.py", "count_lines.py", "final_count.py",
     "simple_count.py", "count_code_lines.py"}

Scripts ==
    Generators \cup CounterScripts \cup
    {"extract_form_fields.py", "analyze_questionnaire.py",
     "create-comprehensive-pitch-deck.py"}

\* the file names a counter opens, whatever directory it is run in
CounterOpens(s, name) ==
    IF s = "accurate_count.py" THEN SplitExt(name) \in extensions
    ELSE IF s = "count_lines.py" THEN SplitLast(name) \in bare_extensions
    ELSE IF s = "count_code_lines.py"
    THEN ~Hidden(name) /\ \E suf \in glob_suffixes : PyEndsWith(name, suf)
    ELSE EndsWithExtension(name)

\* the paths a script opens for reading
Reads(s) ==
    IF s = "extract_form_fields.py" THEN {XML_FILE}
    ELSE IF s = "analyze_questionnaire.py" THEN {FIELDS_JSON}
    ELSE IF s = "create-comprehensive-pitch-deck.py" THEN PITCH_SLIDES
    ELSE IF s \in {"create-energy-flow-diagram.py",
                   "create-energy-flow-vibelux.py", "create-flow-diagrams.py"}
    THEN {FONT_FILE}
    ELSE IF s \in CounterScripts
    THEN {p \in Paths : CounterOpens(s, p.name)}
    ELSE {}

\* the paths a script opens for writing
Writes(s) ==
    IF s = "extract_form_fields.py" THEN {FIELDS_JSON}
    ELSE IF s = "analyze_questionnaire.py" THEN {SUMMARY_JSON}
    ELSE IF s = "create-comprehensive-pitch-deck.py"
    THEN PITCH_SLIDES \cup {PITCH_DECK_JPG}
    ELSE IF s \in EnergyFlowScripts THEN {ENERGY_FLOW_JPG}
    ELSE IF s = "create-flow-diagrams.py" THEN {FLOW_FIXED_JPG, REVENUE_JPG}
    ELSE IF s = "create_vibelux_system_diagram_simple.py"
    THEN {SYSTEM_DIAGRAM_JPG}
    ELSE IF s = "create_vibelux_architecture_pdf.py" THEN {ARCHITECTURE_PDF}
    ELSE IF s = "create_vibelux_architecture_simple.py"
    THEN {ARCHITECTURE_HTML}
    ELSE IF s = "final_count.py" THEN {CODE_STATISTICS}
    ELSE {}

MaxRuns == 3

IdleFiles ==
    /\ fs = [p \in Paths |-> "absent"]
    /\ read_from = [s \in Scripts |-> {}]
    /\ writers = [p \in Paths |-> {}]
    /\ runs = 0

\* before any script has run: no output file exists; the XML export is
\* missing, holds no questionnaire form, or holds it; the application has
\* source files or none; the font is installed or not
InitFiles ==
    /\ \E xml \in {"absent", "xml_without_form", "xml_with_form"},
          source \in {"absent", "outside"}, font \in {"absent", "outside"} :
           fs = [p \in Paths |->
                    IF p = XML_FILE THEN xml
                    ELSE IF p = SOURCE_FILE THEN source
                    ELSE IF p = FONT_FILE THEN font
                    ELSE "absent"]
    /\ read_from = [s \in Scripts |-> {}]
    /\ writers = [p \in Paths |-> {}]
    /\ runs = 0

\* the run of script s: it reads the files rd as they are in seen and then
\* writes the files wr
RunEffect(s, rd, seen, wr) ==
    /\ runs < MaxRuns
    /\ runs' = runs + 1
    /\ read_from' =
           [read_from EXCEPT ![s] = @ \cup ({seen[p] : p \in rd} \cap Scripts)]
    /\ fs' = [p \in Paths |-> IF p \in wr THEN s ELSE fs[p]]
    /\ writers' =
           [p \in Paths |-> IF p \in wr THEN writers[p] \cup {s} ELSE writers[p]]

\* extract_form_fields.py main, lines 131-172: the JSON file is written
\* only when extract_form_fields returned a form; a missing XML file
\* raises in open()
RunExtract ==
    LET s == "extract_form_fields.py"
    IN  IF fs[XML_FILE] = "absent"
        THEN RunEffect(s, {}, fs, {})
        ELSE IF fs[XML_FILE] = "xml_with_form"
        THEN RunEffect(s, Reads(s), fs, Writes(s))
        ELSE RunEffect(s, Reads(s), fs, {})

\* analyze_questionnaire.py main, lines 149-231: open() raises when the
\* JSON file is missing, and then no summary is written
RunAnalyze ==
    LET s == "analyze_questionnaire.py"
    IN  IF fs[FIELDS_JSON] = "absent"
        THEN RunEffect(s, {}, fs, {})
        ELSE RunEffect(s, Reads(s), fs, Writes(s))

\* create-comprehensive-pitch-deck.py lines 332-366: the slides are saved,
\* read back with plt.imread, and the combined deck is saved
RunPitchDeck ==
    LET s == "create-comprehensive-pitch-deck.py"
    IN  RunEffect(s, Reads(s), [p \in Paths |-> s], Writes(s))

\* a script that draws or formats and saves; the PIL scripts load the font
\* first and fall back to the default font if that fails
RunGenerator(s) ==
    /\ s \in Generators
    /\ RunEffect(s, {p \in Reads(s) : fs[p] # "absent"}, fs, Writes(s))

\* a line counter: it opens the files its filter lets through
RunCounter(s) ==
    /\ s \in CounterScripts
    /\ RunEffect(s, {p \in Reads(s) : fs[p] # "absent"}, fs, Writes(s))

(***************************************************************************)
(* analyze_questionnaire.py: analyze_questionnaire                         *)
(***************************************************************************)
UPPERCASE == <<"A","B","C","D","E","F","G","H","I","J","K","L","M","N","O","P","Q","R","S","T","U","V","W","X","Y","Z">>

LOWERCASE == <<"a","b","c","d","e","f","g","h","i","j","k","l","m","n","o","p","q","r","s","t","u","v","w","x","y","z">>

\* s.lower()
Lower(s) ==
    [i \in 1..Len(s) |->
        IF \E j \in 1..Len(UPPERCASE) : UPPERCASE[j] = s[i]
        THEN LOWERCASE[CHOOSE j \in 1..Len(UPPERCASE) : UPPERCASE[j] = s[i]]
        ELSE s[i]]

\* line 68
food_keywords ==
    {<<"c","h","i","c","k","e","n">>, <<"t","u","r","k","e","y">>, <<"b","e","e","f">>, <<"f","i","s","h">>, <<"v","e","g","e","t","a","b","l","e">>, <<"f","r","u","i","t">>,
     <<"g","r","a","i","n">>, <<"d","a","i","r","y">>, <<"c","h","e","e","s","e">>, <<"m","i","l","k">>, <<"b","r","e","a","d">>, <<"r","i","c","e">>,
     <<"p","a","s","t","a">>, <<"b","e","a","n">>, <<"n","u","t">>}

\* line 80
personal_keywords ==
    {<<"n","a","m","e">>, <<"e","m","a","i","l">>, <<"p","h","o","n","e">>, <<"a","d","d","r","e","s","s">>, <<"a","g","e">>, <<"b","i","r","t","h">>, <<"g","e","n","d","e","r">>}

\* line 90
health_keywords ==
    {<<"h","e","a","l","t","h">>, <<"m","e","d","i","c","a","l">>, <<"c","o","n","d","i","t","i","o","n">>, <<"s","y","m","p","t","o","m">>, <<"p","a","i","n">>, <<"i","n","j","u","r","y">>,
     <<"m","e","d","i","c","a","t","i","o","n">>, <<"a","l","l","e","r","g","y">>, <<"e","x","e","r","c","i","s","e">>, <<"a","c","t","i","v","i","t","y">>, <<"s","l","e","e","p">>,
     <<"s","t","r","e","s","s">>}

\* an option of a field: a JSON string, or a JSON object with a label
StrOption(text) == [kind |-> "str", text |-> text]

DictOption(label) == [kind |-> "dict", text |-> label]

\* str(opt): the string itself, the repr of the dict
Str(opt) ==
    IF opt.kind = "str" THEN opt.text
    ELSE <<"{","'","l","a","b","e","l","'",":"," ","'">> \o opt.text \o <<"'","}">>

\* a field of the JSON record: name and options as the extractor wrote
\* them (an empty name stands for '' and for null), field_config as a dict
Field(n, t, k, o, r, opts, cfg) ==
    [name |-> n, type |-> t, field_key |-> k, field_order |-> o,
     required |-> r, options |-> opts, field_config |-> cfg]

NoConfig == [k \in {} |-> ""]

FieldUniverse ==
    { Field(<<"S","l","e","e","p"," ","Q","u","a","l","i","t","y">>, "radio", "sleep1", 1, TRUE,
            <<DictOption(<<"S","t","r","o","n","g","l","y"," ","A","g","r","e","e">>), DictOption(<<"A","g","r","e","e">>)>>,
            [k \in {<<"l","i","k","e","r","t","_","i","d">>} |-> "7"]),
      Field(<<"E","m","a","i","l">>, "email", "email2", 2, TRUE, <<>>, NoConfig),
      Field(<<"P","e","a","n","u","t"," ","b","u","t","t","e","r">>, "select", "pb3", 3, FALSE,
            <<StrOption(<<"Y","e","s">>), StrOption(<<"N","o">>)>>, NoConfig),
      Field(<<"P","i","z","z","a">>, "radio", "pizza4", 4, FALSE,
            <<StrOption(<<"L","i","k","e"," ","i","t">>), StrOption(<<"H","a","t","e"," ","i","t">>)>>,
            [k \in {<<"h","i","d","e","_","f","i","e","l","d">>, <<"h","i","d","e","_","f","i","e","l","d","_","c","o","n","d">>, <<"c","l","a","s","s","e","s">>} |-> "x"]),
      Field(<<"C","o","n","t","a","c","t">>, "phone", "contact5", 5, FALSE, <<>>, NoConfig),
      Field(<<"F","a","v","o","r","i","t","e"," ","c","o","l","o","r">>, "text", "color6", 6, FALSE, <<>>, NoConfig),
      Field(<<"P","a","i","n","f","u","l"," ","F","r","u","i","t"," ","N","a","m","e">>, "text", "pfn7", 7, TRUE, <<>>,
            [k \in {<<"s","h","o","w","_","f","i","e","l","d">>} |-> "y"]),
      Field(<<>>, "divider", "div8", 8, FALSE, <<>>, NoConfig),
      Field(<<"H","o","b","b","y">>, "checkbox", "hobby9", 9, FALSE,
            <<StrOption(<<"U","n","l","i","k","e","l","y">>), DictOption(<<"N","e","v","e","r">>)>>, NoConfig) }

MaxFields == 2

FieldLists == UNION {[1..n -> FieldUniverse] : n \in 0..MaxFields}

\* the field name as it is written, without lower()
FieldNameRaw(field) == field.name

\* line 44: field['name'].lower() if field['name'] else ''
FieldName(field) == IF field.name # <<>> THEN Lower(field.name) ELSE <<>>

\* lines 58-59: a dict option has 'strongly' in its lower-cased label
IsLikert(field) ==
    /\ field.options # <<>>
    /\ \E i \in 1..Len(field.options) :
           /\ field.options[i].kind = "dict"
           /\ PyIn(<<"s","t","r","o","n","g","l","y">>, Lower(field.options[i].text))

\* lines 70-71
IsFood(field) ==
    \/ \E keyword \in food_keywords : PyIn(keyword, FieldName(field))
    \/ /\ field.options # <<>>
       /\ \E i \in 1..Len(field.options) :
              PyIn(<<"l","i","k","e">>, Lower(Str(field.options[i])))

\* line 81
IsPersonal(field) ==
    \/ \E keyword \in personal_keywords : PyIn(keyword, FieldName(field))
    \/ field.type \in {"email", "phone", "address"}

\* line 92
IsHealth(field) ==
    \E keyword \in health_keywords : PyIn(keyword, FieldName(field))

\* line 102
HasConditionalLogic(field) ==
    <<"h","i","d","e","_","f","i","e","l","d">> \in DOMAIN field.field_config
    \/ <<"s","h","o","w","_","f","i","e","l","d">> \in DOMAIN field.field_config

\* lines 106-107: the entries of field_config whose key has 'hide', 'show'
\* or 'cond' in it
Logic(cfg) ==
    [k \in {x \in DOMAIN cfg :
               PyIn(<<"h","i","d","e">>, x) \/ PyIn(<<"s","h","o","w">>, x) \/ PyIn(<<"c","o","n","d">>, x)} |->
        cfg[k]]

\* field['field_config'].get('likert_id', None)
LikertId(cfg) == IF <<"l","i","k","e","r","t","_","i","d">> \in DOMAIN cfg THEN cfg[<<"l","i","k","e","r","t","_","i","d">>] ELSE "None"

\* lines 19-40: the analysis dict before the loop
NewAnalysis(fs_) ==
    [form_metadata |->
         [total_fields |-> Len(fs_),
          required_fields |->
              Cardinality({i \in 1..Len(fs_) : fs_[i].required}),
          optional_fields |->
              Cardinality({i \in 1..Len(fs_) : ~fs_[i].required})],
     field_types |->
         [t \in {fs_[i].type : i \in 1..Len(fs_)} |->
             Cardinality({i \in 1..Len(fs_) : fs_[i].type = t})],
     required_fields |-> <<>>,
     conditional_logic |-> <<>>,
     likert_scales |-> <<>>,
     food_preferences |-> <<>>,
     personal_info |-> <<>>,
     health_assessments |-> <<>>]

\* the dicts the loop appends
RequiredEntry(f) ==
    [name |-> f.name, type |-> f.type, field_key |-> f.field_key,
     order |-> f.field_order]

LikertEntry(f) ==
    [name |-> f.name, field_key |-> f.field_key, options |-> f.options,
     likert_id |-> LikertId(f.field_config)]

FoodEntry(f) ==
    [name |-> f.name, type |-> f.type, field_key |-> f.field_key,
     options |-> f.options]

PersonalEntry(f) ==
    [name |-> f.name, type |-> f.type, field_key |-> f.field_key,
     required |-> f.required]

HealthEntry(f) ==
    [name |-> f.name, type |-> f.type, field_key |-> f.field_key,
     options |-> f.options]

LogicEntry(f) ==
    [field_name |-> f.name, field_key |-> f.field_key,
     logic |-> Logic(f.field_config)]

\* list.append(entry) if the condition holds
AppendIf(list, cond, entry) == IF cond THEN Append(list, entry) ELSE list

IdleAnalyze ==
    /\ fields = <<>>
    /\ analysis = NewAnalysis(<<>>)
    /\ idx = 0
    /\ an_pc = "idle"

\* lines 14-40: the JSON record is loaded and the analysis dict is set up
InitAnalyze ==
    /\ fields \in FieldLists
    /\ analysis = NewAnalysis(fields)
    /\ idx = 0
    /\ an_pc = "loop"

\* lines 43-108: the loop body for the next field
CategorizeField ==
    /\ an_pc = "loop"
    /\ idx < Len(fields)
    /\ LET field == fields[idx + 1]
       IN  analysis' =
               [analysis EXCEPT
                   !.required_fields =
                       AppendIf(@, field.required, RequiredEntry(field)),
                   !.likert_scales =
                       AppendIf(@, IsLikert(field), LikertEntry(field)),
                   !.food_preferences =
                       AppendIf(@, IsFood(field), FoodEntry(field)),
                   !.personal_info =
                       AppendIf(@, IsPersonal(field), PersonalEntry(field)),
                   !.health_assessments =
                       AppendIf(@, IsHealth(field), HealthEntry(field)),
                   !.conditional_logic =
                       AppendIf(@, HasConditionalLogic(field), LogicEntry(field))]
    /\ idx' = idx + 1
    /\ UNCHANGED <<fields, an_pc>>

\* line 110: return analysis
ReturnAnalysis ==
    /\ an_pc = "loop"
    /\ idx = Len(fields)
    /\ an_pc' = "done"
    /\ UNCHANGED <<fields, analysis, idx>>

(***************************************************************************)
(* Claims about the categorization                                         *)
(***************************************************************************)
\* the fields the loop has been through
Processed == SubSeq(fields, 1, idx)

\* the name of f, lower-cased, contains one of the keywords
NameHasKeyword(f, keywords) == \E k \in keywords : PyIn(k, Lower(f.name))

\* the string form of an option of f contains 'like' as it is written
OptionHasLike(f) ==
    \E i \in 1..Len(f.options) : PyIn(<<"l","i","k","e">>, Str(f.options[i]))

\* the lower-cased string form of an option of f contains 'like'
OptionHasLikeLowered(f) ==
    \E i \in 1..Len(f.options) : PyIn(<<"l","i","k","e">>, Lower(Str(f.options[i])))

ClaimedHealth(f) == NameHasKeyword(f, health_keywords)

ClaimedPersonal(f) ==
    NameHasKeyword(f, personal_keywords)
    \/ f.type \in {"email", "phone", "address"}

ClaimedFood(f) == NameHasKeyword(f, food_keywords) \/ OptionHasLike(f)

ClaimedFoodLowered(f) ==
    NameHasKeyword(f, food_keywords) \/ OptionHasLikeLowered(f)

\* the field keys of a category list, in list order
Keys(list) == [i \in 1..Len(list) |-> list[i].field_key]

\* C10: a field is appended to health_assessments exactly when its
\* lower-cased name contains a health keyword, to personal_info exactly when
\* its lower-cased name contains a personal keyword or its type is email,
\* phone or address, and to food_preferences exactly when its lower-cased
\* name contains a food keyword or the string form of one of its options
\* contains 'like'; each list keeps the input order.
C10_CategoriesByKeyword ==
    an_pc \in {"loop", "done"} =>
        /\ Keys(analysis.health_assessments) =
              Keys(SelectSeq(Processed, ClaimedHealth))
        /\ Keys(analysis.personal_info) =
              Keys(SelectSeq(Processed, ClaimedPersonal))
        /\ Keys(analysis.food_preferences) =
              Keys(SelectSeq(Processed, ClaimedFood))

\* C10 as amended: as C10, but a field is appended to food_preferences
\* exactly when its lower-cased name contains a food keyword or the
\* lower-cased string form of one of its options contains 'like'.
C10_Amended ==
    an_pc \in {"loop", "done"} =>
        /\ Keys(analysis.health_assessments) =
              Keys(SelectSeq(Processed, ClaimedHealth))
        /\ Keys(analysis.personal_info) =
              Keys(SelectSeq(Processed, ClaimedPersonal))
        /\ Keys(analysis.food_preferences) =
              Keys(SelectSeq(Processed, ClaimedFoodLowered))

\* the analysis of two fields is done: one field is in all three
\* categories, the other is a food preference only through its option
\* 'Like it'
C10_Witness ==
    /\ an_pc = "done"
    /\ Keys(analysis.health_assessments) = <<"pfn7">>
    /\ Keys(analysis.personal_info) = <<"pfn7">>
    /\ Keys(analysis.food_preferences) = <<"pfn7", "pizza4">>

(***************************************************************************)
(* Claims about the files the scripts share                                *)
(***************************************************************************)
\* the scripts other than s that write path p
OtherWriters(s, p) == {t \in Scripts \ {s} : p \in Writes(t)}

\* C3: no script interacts with another at run time: no path read by one
\* script is written by another, so no script ever reads a file another
\* script wrote.
C3_NoScriptReadsAnothersOutput ==
    \A s \in Scripts : read_from[s] \subseteq {s}

\* C3 as amended: the only path read by one script and written by another
\* is shakapt_questionnaire_fields.json, which extract_form_fields.py
\* writes and analyze_questionnaire.py reads; no other script ever reads a
\* file another script wrote.
C3_Amended ==
    /\ \A s \in Scripts : \A p \in Reads(s) :
           OtherWriters(s, p) # {} =>
               /\ s = "analyze_questionnaire.py"
               /\ p = FIELDS_JSON
               /\ OtherWriters(s, p) = {"extract_form_fields.py"}
    /\ \A s \in Scripts :
           \/ read_from[s] \subseteq {s}
           \/ /\ s = "analyze_questionnaire.py"
              /\ read_from[s] = {"extract_form_fields.py"}

\* the analyzer has read the JSON file the extractor wrote, a counter has
\* read the application's sources and final_count.py has saved its file
C3_Witness ==
    /\ read_from["analyze_questionnaire.py"] = {"extract_form_fields.py"}
    /\ fs[SUMMARY_JSON] = "analyze_questionnaire.py"
    /\ fs[CODE_STATISTICS] = "final_count.py"

\* C4: no output path is written by two different scripts, so the artifact
\* an earlier script wrote is left as it is by every later run of another
\* script.
C4_NoSharedOutput ==
    \A p \in Paths :
        /\ Cardinality(writers[p]) <= 1
        /\ writers[p] # {} => fs[p] \in writers[p]

\* C4 as amended: the only output path written by two different scripts is
\* vibelux_energy_optimization_flow.jpg, which each of the four energy-flow
\* scripts writes; every other artifact is left as it is by every run of a
\* script other than its writer.
C4_Amended ==
    /\ \A s \in Scripts : \A p \in Writes(s) :
           OtherWriters(s, p) # {} =>
               /\ p = ENERGY_FLOW_JPG
               /\ OtherWriters(s, p) \cup {s} = EnergyFlowScripts
    /\ \A p \in Paths :
           /\ \/ Cardinality(writers[p]) <= 1
              \/ p = ENERGY_FLOW_JPG /\ writers[p] \subseteq EnergyFlowScripts
           /\ writers[p] # {} => fs[p] \in writers[p]

\* two energy-flow scripts have written the shared diagram one after the
\* other, and create-flow-diagrams.py has saved its two files beside it
C4_Witness ==
    /\ Cardinality(writers[ENERGY_FLOW_JPG]) >= 2
    /\ fs[FLOW_FIXED_JPG] = "create-flow-diagrams.py"
    /\ fs[REVENUE_JPG] = "create-flow-diagrams.py"

(***************************************************************************)
(* Claims about the line counters                                          *)
(***************************************************************************)
\* the files the running counter has tallied
TalliedFiles == DOMAIN tallied

\* the directory names the specification lists as left out
ExcludedNames ==
    {<<"n","o","d","e","_","m","o","d","u","l","e","s">>, <<".","n","e","x","t">>, <<"d","i","s","t">>, <<"b","u","i","l","d">>, <<"t","e","m","p","_","d","i","s","a","b","l","e","d">>, <<".","g","i","t">>}

\* f lies somewhere beneath a directory with an excluded name
BeneathExcluded(f) == \E i \in 1..Len(f.dir) : f.dir[i] \in ExcludedNames

\* the name of f ends in one of the four counted suffixes
HasCountedSuffix(f) ==
    \E suf \in {<<".","t","s">>, <<".","t","s","x">>, <<".","j","s">>, <<".","j","s","x">>} : PyEndsWith(f.name, suf)

\* the name of f is a stem that is not only dots, followed by a counted
\* suffix: it has a counted extension however the extension is taken
HasCountedExtension(f) ==
    /\ HasCountedSuffix(f)
    /\ \E i \in 1..LastDot(f.name) : f.name[i] # "."

\* C5: in the four os.walk counters no file beneath a directory named
\* node_modules, .next, dist, build, temp_disabled or .git is ever tallied.
C5_ExcludedNeverTallied ==
    script \in WalkCounters => \A f \in TalliedFiles : ~BeneathExcluded(f)

\* a walk counter has finished a tree that holds a file beneath an excluded
\* directory, and has tallied another file of that tree
C5_Witness ==
    /\ script \in WalkCounters
    /\ remaining = {}
    /\ \E f \in tree : BeneathExcluded(f)
    /\ TalliedFiles # {}

\* C6: in the four os.walk counters every readable file with a counted
\* extension and no excluded directory name on its path is tallied exactly
\* once by the time the walk is over.
C6_OnlyListedDirsExcluded ==
    (script \in WalkCounters /\ remaining = {}) =>
        \A f \in tree :
            (f.readable /\ HasCountedExtension(f) /\ ~BeneathExcluded(f)) =>
                (f \in TalliedFiles /\ tallied[f] = 1)

\* C7: every file any of the five counters tallies has a name ending in
\* '.ts', '.tsx', '.js' or '.jsx'.
C7_OnlyCountedSuffixes ==
    script \in Counters => \A f \in TalliedFiles : HasCountedSuffix(f)

\* C8: in accurate_count.py, simple_count.py and final_count.py the total
\* file count is the sum of the per-extension file counts and the total line
\* count the sum of the per-extension line counts, after any number of
\* files; in final_count.py the per-directory counts sum to the totals too.
C8_TotalsAreSums ==
    /\ script \in {"accurate_count", "simple_count", "final_count"} =>
           /\ total_files = SumValues(file_counts)
           /\ total_lines = SumValues(line_counts)
    /\ script = "final_count" =>
           /\ total_files =
                  SumValues([k \in DOMAIN by_directory |-> by_directory[k].files])
           /\ total_lines =
                  SumValues([k \in DOMAIN by_directory |-> by_directory[k].lines])

\* final_count.py has tallied two files with different extensions in
\* different directories
C8_Witness ==
    /\ script = "final_count"
    /\ total_files = 2
    /\ total_lines > 0
    /\ Cardinality(DOMAIN file_counts) = 2
    /\ Cardinality(DOMAIN by_directory) = 2

AllReported == \A c \in Counters : report[c].done

\* C9: run on the same tree, the five counters report the same total number
\* of files and the same total number of lines.
C9_FiveCountersAgree ==
    \A c, d \in Counters :
        (report[c].done /\ report[d].done) =>
            /\ report[c].files = report[d].files
            /\ report[c].lines = report[d].lines

\* C9 as amended: final_count.py and simple_count.py report the same total
\* number of files and of lines on every tree; the other three counters may
\* report other totals.
C9_Amended ==
    (report["final_count"].done /\ report["simple_count"].done) =>
        /\ report["final_count"].files = report["simple_count"].files
        /\ report["final_count"].lines = report["simple_count"].lines

\* all five counters have reported on a tree, final_count.py and
\* simple_count.py have counted something, and each of the other three
\* reports other totals
C9_Witness ==
    /\ AllReported
    /\ report["final_count"].files > 0
    /\ report["final_count"] = report["simple_count"]
    /\ report["count_code_lines"] # report["final_count"]
    /\ report["count_lines"] # report["final_count"]
    /\ report["accurate_count"] # report["final_count"]

(***************************************************************************)
(* extract_form_fields.py: the summary main prints of the record it saved. *)
(* A dict is the sequence of its <<key, value>> items in insertion order.  *)
(***************************************************************************)
\* d.get(k, default)
DictGet(items, k, default) ==
    IF \E i \in 1..Len(items) : items[i][1] = k
    THEN items[CHOOSE i \in 1..Len(items) : items[i][1] = k][2]
    ELSE default

\* d[k] = v
DictSet(items, k, v) ==
    IF \E i \in 1..Len(items) : items[i][1] = k
    THEN [i \in 1..Len(items) |->
             IF items[i][1] = k THEN <<k, v>> ELSE items[i]]
    ELSE Append(items, <<k, v>>)

\* lines 154-158: field_types after the loop over the fields of list
RECURSIVE FieldTypes(_)

FieldTypes(list) ==
    IF list = <<>> THEN <<>>
    ELSE LET d == FieldTypes(SubSeq(list, 1, Len(list) - 1))
             field_type == list[Len(list)].type
         IN  DictSet(d, field_type, DictGet(d, field_type, 0) + 1)

\* lines 155-160: required_count after the loop over the fields of list
RECURSIVE RequiredCount(_)

RequiredCount(list) ==
    IF list = <<>> THEN 0
    ELSE RequiredCount(SubSeq(list, 1, Len(list) - 1))
         + (IF list[Len(list)].required.v THEN 1 ELSE 0)

\* a < b for two str of lower-case letters
RECURSIVE StrLess(_, _)

StrLess(a, b) ==
    IF b = <<>> THEN FALSE
    ELSE IF a = <<>> THEN TRUE
    ELSE IF a[1] = b[1] THEN StrLess(Tail(a), Tail(b))
    ELSE (CHOOSE i \in 1..Len(LOWERCASE) : LOWERCASE[i] = a[1])
             < (CHOOSE i \in 1..Len(LOWERCASE) : LOWERCASE[i] = b[1])

\* line 166: sorted(field_types.items()) raises a TypeError when it
\* compares an item whose key is None with an item whose key is a str; the
\* keys of a dict differ, so the counts are never compared
SortRaises(items) ==
    /\ Len(items) >= 2
    /\ \E i \in 1..Len(items) : items[i][1] = PyNone

\* line 166: sorted(field_types.items()) when it does not raise: a single
\* item is compared with nothing, several items have str keys
SortedItems(items) ==
    LET Place(i) == 1 + Cardinality({j \in 1..Len(items) :
                                         StrLess(items[j][1].v, items[i][1].v)})
    IN  IF Len(items) <= 1 THEN items
        ELSE [n \in 1..Len(items) |->
                 items[CHOOSE i \in 1..Len(items) : Place(i) = n]]

\* lines 144-165: the totals are printed, the types and the required fields
\* are counted and the required and optional counts are printed
PrintSummary ==
    /\ fields_pc = "returned"
    /\ LET required_count == RequiredCount(form_info.fields)
       IN  summary' = [total |-> Len(form_info.fields),
                       required |-> required_count,
                       optional |-> Len(form_info.fields) - required_count,
                       types |-> <<>>]
    /\ fields_pc' = "field_types"
    /\ UNCHANGED <<root_form, form_info>>

\* lines 166-169: the count of every type is printed, in the order of the
\* types, and main returns the record
PrintFieldTypes ==
    /\ fields_pc = "field_types"
    /\ ~SortRaises(FieldTypes(form_info.fields))
    /\ summary' = [summary EXCEPT
                       !.types = SortedItems(FieldTypes(form_info.fields))]
    /\ fields_pc' = "main_returned"
    /\ UNCHANGED <<root_form, form_info>>

\* line 166: sorted() raises, no count of a type is printed and nothing
\* catches the error
FieldTypesError ==
    /\ fields_pc = "field_types"
    /\ SortRaises(FieldTypes(form_info.fields))
    /\ fields_pc' = "type_error"
    /\ UNCHANGED <<root_form, form_info, summary>>

(***************************************************************************)
(* Claims about the counts                                                 *)
(***************************************************************************)
\* the sum of the counts of a list of <<key, count>> items
RECURSIVE SumCounts(_)

SumCounts(items) ==
    IF items = <<>> THEN 0 ELSE items[1][2] + SumCounts(Tail(items))

\* the summary of the extractor: the required and optional counts add up
\* to the total once they are printed, and so do the counts of the types
\* once main is past printing them
SummaryCountsAgree ==
    /\ fields_pc \in {"field_types", "main_returned", "type_error"} =>
           summary.required + summary.optional = summary.total
    /\ fields_pc \in {"main_returned", "type_error"} =>
           SumCounts(summary.types) = summary.total

\* form_metadata of the analyzer: the required and optional counts add up
\* to the total, so do the counts of field_types, and the returned list of
\* required fields has form_metadata['required_fields'] entries
MetadataCountsAgree ==
    /\ analysis.form_metadata.required_fields
           + analysis.form_metadata.optional_fields
       = analysis.form_metadata.total_fields
    /\ analysis.form_metadata.total_fields = Len(fields)
    /\ SumValues(analysis.field_types) = analysis.form_metadata.total_fields
    /\ an_pc = "done" =>
           Len(analysis.required_fields)
               = analysis.form_metadata.required_fields

\* C21: in the summary the extractor prints and in form_metadata of the
\* analyzer, the required count plus the optional count is the total number
\* of fields, the counts of the types add up to the total number of fields,
\* and analysis['required_fields'] has form_metadata['required_fields']
\* entries, for every list of fields.
C21_CountsAgree == SummaryCountsAgree /\ MetadataCountsAgree

(***************************************************************************)
(* create_vibelux_architecture_pdf.py: VibeLuxArchitecturePDF.create_pdf.  *)
(* self.content is the list of flowables; a flowable is modelled by the    *)
(* section method that made it and by whether it is a PageBreak.            *)
(***************************************************************************)
\* the section methods with the roadmap first
SECTION_CALLS_ROADMAP_FIRST ==
    <<"create_future_roadmap_section", "create_title_page",
      "create_system_overview", "create_business_model_section",
      "create_user_workflows_section",
      "create_technical_implementation_section",
      "create_integration_ecosystem_section",
      "create_performance_analytics_section">>

\* lines 744-751: the section methods in the order create_pdf calls them
SECTION_CALLS ==
    <<"create_title_page", "create_system_overview",
      "create_business_model_section", "create_user_workflows_section",
      "create_technical_implementation_section",
      "create_integration_ecosystem_section",
      "create_performance_analytics_section",
      "create_future_roadmap_section">>

\* lines 113-708: what a section method appends with self.content.extend:
\* its flowables, and a PageBreak after them in every section but the last
SectionFlowables(method) ==
    IF method = "create_future_roadmap_section"
    THEN <<[section |-> method, page_break |-> FALSE]>>
    ELSE <<[section |-> method, page_break |-> FALSE],
           [section |-> method, page_break |-> TRUE]>>

MaxCalls == 3

\* line 45: a generator object has just been made; ~/Downloads is there or
\* is not
InitPdf ==
    /\ pdf_content = <<>>
    /\ pdf_pc = "idle"
    /\ pdf_next = 0
    /\ pdf_calls = 0
    /\ pdf_outcome = "none"
    /\ downloads \in BOOLEAN

IdlePdf ==
    /\ pdf_content = <<>>
    /\ pdf_pc = "idle"
    /\ pdf_next = 0
    /\ pdf_calls = 0
    /\ pdf_outcome = "none"
    /\ downloads = TRUE

\* lines 727-740: create_pdf is called on the generator object
CallCreatePdf ==
    /\ pdf_pc = "idle"
    /\ pdf_calls < MaxCalls
    /\ pdf_calls' = pdf_calls + 1
    /\ pdf_next' = 0
    /\ pdf_pc' = "content"
    /\ UNCHANGED <<pdf_content, pdf_outcome, downloads>>

\* lines 744-751: the next section method extends self.content
CreateSection ==
    /\ pdf_pc = "content"
    /\ pdf_next < Len(SECTION_CALLS)
    /\ pdf_content' =
           pdf_content \o SectionFlowables(SECTION_CALLS[pdf_next + 1])
    /\ pdf_next' = pdf_next + 1
    /\ UNCHANGED <<pdf_pc, pdf_calls, pdf_outcome, downloads>>

\* lines 753-759: the tables are styled, which leaves the list as it is, and
\* doc.build is called with self.content itself
CallBuild ==
    /\ pdf_pc = "content"
    /\ pdf_next = Len(SECTION_CALLS)
    /\ pdf_pc' = "build_called"
    /\ UNCHANGED <<pdf_content, pdf_next, pdf_calls, pdf_outcome, downloads>>

\* line 759, inside doc.build: the document template takes the flowable at
\* the front off the list it was given and lays it out
HandleFlowable ==
    /\ pdf_pc \in {"build_called", "build"}
    /\ pdf_content # <<>>
    /\ pdf_content' = Tail(pdf_content)
    /\ pdf_pc' = "build"
    /\ UNCHANGED <<pdf_next, pdf_calls, pdf_outcome, downloads>>

\* lines 759-761: the list is used up and the file is saved; create_pdf
\* returns the path, or the save raises when ~/Downloads is not there
EndBuild ==
    /\ pdf_pc = "build"
    /\ pdf_content = <<>>
    /\ pdf_outcome' = IF downloads THEN "returned" ELSE "raised"
    /\ pdf_pc' = "idle"
    /\ UNCHANGED <<pdf_content, pdf_next, pdf_calls, downloads>>

(***************************************************************************)
(* Claims about create_pdf                                                 *)
(***************************************************************************)
\* the section methods whose flowables the list holds, in the order of the
\* list, one entry for every run of flowables of one method
SectionRuns(list) ==
    LET starts == {i \in 1..Len(list) :
                       i = 1 \/ list[i - 1].section # list[i].section}
        Nth(n) == CHOOSE i \in starts :
                      Cardinality({j \in starts : j <= i}) = n
    IN  [n \in 1..Cardinality(starts) |-> list[Nth(n)].section]

final_count_phases_saved_first == <<"gather", "save", "draw">>

\* final_count.py: the walk (line 72), the printed tables (lines 75-93), the
\* JSON file (lines 96-97)
final_count_phases == <<"gather", "draw", "save">>

\* create-comprehensive-pitch-deck.py lines 332-366: the six slides are
\* drawn, then saved; each is read back with plt.imread and shown in the
\* combined figure, which gets its title and is saved
pitch_deck_phases ==
    [i \in 1..6 |-> "draw"] \o [i \in 1..6 |-> "save"]
    \o [i \in 1..12 |-> IF i % 2 = 1 THEN "gather" ELSE "draw"]
    \o <<"draw", "save">>

\* what a run of script s goes through when its input files are there
Phases(s) ==
    CASE s = "final_count.py" -> final_count_phases
      [] s = "create-comprehensive-pitch-deck.py" -> pitch_deck_phases
      \* the tallying walk, the printed table
      [] s \in {"accurate_count.py", "simple_count.py", "count_code_lines.py"}
             -> <<"gather", "draw">>
      \* count_lines.py lines 26-55, and lines 57-74: the directories of
      \* main_dirs are walked and read again for the directory breakdown
      [] s = "count_lines.py" -> <<"gather", "draw", "gather", "draw">>
      \* extract_form_fields.py: the XML is read, the record built, the JSON
      \* written (lines 141-142), the summary counted and printed (147-167)
      [] s = "extract_form_fields.py" -> <<"gather", "draw", "save", "draw">>
      \* analyze_questionnaire.py main: analyze_questionnaire reads the JSON
      \* (line 14), the report is printed, generate_field_summary reads the
      \* JSON again (line 115), the summary file is written (lines 222-226)
      [] s = "analyze_questionnaire.py"
             -> <<"gather", "draw", "gather", "draw", "save">>
      \* create-flow-diagrams.py lines 295-310: create_flow_diagram loads
      \* the fonts (lines 15-18), draws and saves (line 292), twice
      [] s = "create-flow-diagrams.py"
             -> <<"gather", "draw", "save", "gather", "draw", "save">>
      \* the two diagrams drawn with PIL load the fonts, draw, save
      [] s \in {"create-energy-flow-diagram.py",
                "create-energy-flow-vibelux.py"}
             -> <<"gather", "draw", "save">>
      \* the other generators draw or format one artifact and save it
      [] OTHER -> <<"draw", "save">>

MaxScriptRuns == 2

IdlePhases ==
    /\ ph_script = "none"
    /\ ph_step = 0
    /\ ph_runs = 0

\* script s is started
StartScript(s) ==
    /\ ph_script = "none"
    /\ ph_runs < MaxScriptRuns
    /\ ph_script' = s
    /\ ph_step' = 0
    /\ ph_runs' = ph_runs + 1

\* the running script enters its next phase
NextPhase ==
    /\ ph_script # "none"
    /\ ph_step < Len(Phases(ph_script))
    /\ ph_step' = ph_step + 1
    /\ UNCHANGED <<ph_script, ph_runs>>

\* the running script has gone through its phases and exits
ExitScript ==
    /\ ph_script # "none"
    /\ ph_step = Len(Phases(ph_script))
    /\ ph_script' = "none"
    /\ ph_step' = 0
    /\ UNCHANGED ph_runs

(***************************************************************************)
(* Claims about the phases                                                 *)
(***************************************************************************)
\* the place of a phase in the order gather, draw or format, save
PhaseRank(phase) ==
    CASE phase = "gather" -> 1 [] phase = "draw" -> 2 [] phase = "save" -> 3

\* the running script goes from the phase it is in to another phase
EntersPhase ==
    /\ ph_script # "none"
    /\ ph_script' = ph_script
    /\ ph_step >= 1
    /\ ph_step' = ph_step + 1

\* the scripts that go through gather, draw or format, save once, in order
LinearScripts ==
    {"accurate_count.py", "simple_count.py", "count_code_lines.py",
     "final_count.py", "create-energy-flow-diagram.py",
     "create-energy-flow-vibelux.py", "energy-flow-simple.py",
     "energy-optimization-flow.py", "create_vibelux_system_diagram_simple.py",
     "create_vibelux_architecture_pdf.py",
     "create_vibelux_architecture_simple.py"}

\* C11: every script goes through gather, then draw or format, then save,
\* each once: a script never goes back to an earlier phase, so after it has
\* written an output file it neither reads input data nor draws or formats.
C11_PhasesInOrder ==
    [][EntersPhase =>
           PhaseRank(Phases(ph_script)[ph_step'])
               >= PhaseRank(Phases(ph_script)[ph_step])]_vars

\* C11 as amended: the four counters accurate_count.py, simple_count.py,
\* count_code_lines.py and final_count.py, the five scripts that draw one
\* diagram and the two architecture generators never go back to an earlier
\* phase.
C11_Amended ==
    [][(EntersPhase /\ ph_script \in LinearScripts) =>
           PhaseRank(Phases(ph_script)[ph_step'])
               >= PhaseRank(Phases(ph_script)[ph_step])]_vars

\* final_count.py has gathered, printed and saved
C11_Witness ==
    /\ ph_script = "final_count.py"
    /\ ph_step = 3
    /\ Phases(ph_script)[ph_step] = "save"

(***************************************************************************)
(* The specifications: each runs one group of scripts and leaves the       *)
(* other groups as they are                                                *)
(***************************************************************************)
IdleExtract ==
    /\ content = <<>>
    /\ form_start = 0
    /\ form_opening = 0
    /\ form_level = 0
    /\ pos = 0
    /\ form_end = 0
    /\ form_xml = <<>>
    /\ bound = {}
    /\ pc = "start"
    /\ returned = "pending"
    /\ json_written = FALSE
    /\ main_returned = "pending"

\* extract_form_fields is called with a document it has just read
InitExtract ==
    /\ content \in Documents
    /\ form_start = 0
    /\ form_opening = 0
    /\ form_level = 0
    /\ pos = 0
    /\ form_end = 0
    /\ form_xml = <<>>
    /\ bound = {}
    /\ pc = "start"
    /\ returned = "pending"
    /\ json_written = FALSE
    /\ main_returned = "pending"
    /\ IdleCount
    /\ IdleFiles
    /\ IdleAnalyze
    /\ IdleParse
    /\ IdleFields
    /\ IdlePdf
    /\ IdlePhases

NextExtract ==
    \/ FormNotFound
          /\ UNCHANGED <<cntVars, fsVars, anVars, parseVars, fieldVars,
                         pdfVars, phaseVars>>
    \/ FindForm
          /\ UNCHANGED <<cntVars, fsVars, anVars, parseVars, fieldVars,
                         pdfVars, phaseVars>>
    \/ ScanStep
          /\ UNCHANGED <<cntVars, fsVars, anVars, parseVars, fieldVars,
                         pdfVars, phaseVars>>
    \/ ScanExhausted
          /\ UNCHANGED <<cntVars, fsVars, anVars, parseVars, fieldVars,
                         pdfVars, phaseVars>>
    \/ SliceForm
          /\ UNCHANGED <<cntVars, fsVars, anVars, parseVars, fieldVars,
                         pdfVars, phaseVars>>
    \/ SliceUnbound
          /\ UNCHANGED <<cntVars, fsVars, anVars, parseVars, fieldVars,
                         pdfVars, phaseVars>>
    \/ ParseFailed
          /\ UNCHANGED <<cntVars, fsVars, anVars, parseVars, fieldVars,
                         pdfVars, phaseVars>>
    \/ ReturnFormInfo
          /\ UNCHANGED <<cntVars, fsVars, anVars, parseVars, fieldVars,
                         pdfVars, phaseVars>>
    \/ MainSave
          /\ UNCHANGED <<cntVars, fsVars, anVars, parseVars, fieldVars,
                         pdfVars, phaseVars>>
    \/ MainFailed
          /\ UNCHANGED <<cntVars, fsVars, anVars, parseVars, fieldVars,
                         pdfVars, phaseVars>>

SpecExtract == InitExtract /\ [][NextExtract]_vars

\* the search for the marker and the scan loop, on a document that holds
\* the marker
InitScan ==
    /\ content \in ScanDocuments
    /\ form_start = 0
    /\ form_opening = 0
    /\ form_level = 0
    /\ pos = 0
    /\ form_end = 0
    /\ form_xml = <<>>
    /\ bound = {}
    /\ pc = "start"
    /\ returned = "pending"
    /\ json_written = FALSE
    /\ main_returned = "pending"
    /\ IdleCount
    /\ IdleFiles
    /\ IdleAnalyze
    /\ IdleParse
    /\ IdleFields
    /\ IdlePdf
    /\ IdlePhases

NextScan ==
    \/ FindForm
          /\ UNCHANGED <<cntVars, fsVars, anVars, parseVars, fieldVars,
                         pdfVars, phaseVars>>
    \/ ScanStep
          /\ UNCHANGED <<cntVars, fsVars, anVars, parseVars, fieldVars,
                         pdfVars, phaseVars>>
    \/ ScanExhausted
          /\ UNCHANGED <<cntVars, fsVars, anVars, parseVars, fieldVars,
                         pdfVars, phaseVars>>

\* the interpreter keeps running the function: a step that can be taken is
\* taken
SpecScan == InitScan /\ [][NextScan]_vars /\ WF_vars(NextScan)

\* the counters are run, one after the other and in any order, in a
\* directory holding one of the trees
InitCounters ==
    InitCount /\ IdleExtract /\ IdleFiles /\ IdleAnalyze /\ IdleParse
    /\ IdleFields
    /\ IdlePdf
    /\ IdlePhases

NextCounters ==
    \/ \E c \in Counters : StartCounter(c)
          /\ UNCHANGED <<exVars, fsVars, anVars, parseVars, fieldVars,
                         pdfVars, phaseVars>>
    \/ \E f \in remaining : AccurateCountFile(f)
          /\ UNCHANGED <<exVars, fsVars, anVars, parseVars, fieldVars,
                         pdfVars, phaseVars>>
    \/ \E f \in remaining : CountLinesFile(f)
          /\ UNCHANGED <<exVars, fsVars, anVars, parseVars, fieldVars,
                         pdfVars, phaseVars>>
    \/ \E f \in remaining : FinalCountFile(f)
          /\ UNCHANGED <<exVars, fsVars, anVars, parseVars, fieldVars,
                         pdfVars, phaseVars>>
    \/ \E f \in remaining : SimpleCountFile(f)
          /\ UNCHANGED <<exVars, fsVars, anVars, parseVars, fieldVars,
                         pdfVars, phaseVars>>
    \/ \E f \in remaining : CountCodeLinesFile(f)
          /\ UNCHANGED <<exVars, fsVars, anVars, parseVars, fieldVars,
                         pdfVars, phaseVars>>
    \/ FinishCounter
          /\ UNCHANGED <<exVars, fsVars, anVars, parseVars, fieldVars,
                         pdfVars, phaseVars>>

SpecCount == InitCounters /\ [][NextCounters]_vars

\* the scripts are run one at a time, in any order and any number of times
InitScripts ==
    InitFiles /\ IdleExtract /\ IdleCount /\ IdleAnalyze /\ IdleParse
    /\ IdleFields
    /\ IdlePdf
    /\ IdlePhases

NextScripts ==
    \/ RunExtract
          /\ UNCHANGED <<exVars, cntVars, anVars, parseVars, fieldVars,
                         pdfVars, phaseVars>>
    \/ RunAnalyze
          /\ UNCHANGED <<exVars, cntVars, anVars, parseVars, fieldVars,
                         pdfVars, phaseVars>>
    \/ RunPitchDeck
          /\ UNCHANGED <<exVars, cntVars, anVars, parseVars, fieldVars,
                         pdfVars, phaseVars>>
    \/ \E s \in Generators : RunGenerator(s)
          /\ UNCHANGED <<exVars, cntVars, anVars, parseVars, fieldVars,
                         pdfVars, phaseVars>>
    \/ \E s \in CounterScripts : RunCounter(s)
          /\ UNCHANGED <<exVars, cntVars, anVars, parseVars, fieldVars,
                         pdfVars, phaseVars>>

SpecScripts == InitScripts /\ [][NextScripts]_vars

\* analyze_questionnaire is called on a JSON record
InitAnalysis ==
    InitAnalyze /\ IdleExtract /\ IdleCount /\ IdleFiles /\ IdleParse
    /\ IdleFields
    /\ IdlePdf
    /\ IdlePhases

NextAnalysis ==
    \/ CategorizeField
          /\ UNCHANGED <<exVars, cntVars, fsVars, parseVars, fieldVars,
                         pdfVars, phaseVars>>
    \/ ReturnAnalysis
          /\ UNCHANGED <<exVars, cntVars, fsVars, parseVars, fieldVars,
                         pdfVars, phaseVars>>

SpecAnalyze == InitAnalysis /\ [][NextAnalysis]_vars

\* one of the two parse functions is called on the text of an element
InitParsing ==
    InitParse /\ IdleExtract /\ IdleCount /\ IdleFiles /\ IdleAnalyze
    /\ IdleFields
    /\ IdlePdf
    /\ IdlePhases

NextParsing ==
    \/ ParseFieldOptions
          /\ UNCHANGED <<exVars, cntVars, fsVars, anVars, fieldVars,
                         pdfVars, phaseVars>>
    \/ ParseFieldOptionsConfig
          /\ UNCHANGED <<exVars, cntVars, fsVars, anVars, fieldVars,
                         pdfVars, phaseVars>>

SpecParse == InitParsing /\ [][NextParsing]_vars

\* lines 82-129 of extract_form_fields are run on a parsed form, and main
\* prints the summary of the record
InitRecord ==
    InitFields /\ IdleExtract /\ IdleCount /\ IdleFiles /\ IdleAnalyze
    /\ IdleParse
    /\ IdlePdf
    /\ IdlePhases

NextRecord ==
    \/ BuildFormInfo
          /\ UNCHANGED <<exVars, cntVars, fsVars, anVars, parseVars,
                         pdfVars, phaseVars>>
    \/ ExtractField
          /\ UNCHANGED <<exVars, cntVars, fsVars, anVars, parseVars,
                         pdfVars, phaseVars>>
    \/ FieldOrderError
          /\ UNCHANGED <<exVars, cntVars, fsVars, anVars, parseVars,
                         pdfVars, phaseVars>>
    \/ SortAndReturn
          /\ UNCHANGED <<exVars, cntVars, fsVars, anVars, parseVars,
                         pdfVars, phaseVars>>
    \/ PrintSummary
          /\ UNCHANGED <<exVars, cntVars, fsVars, anVars, parseVars,
                         pdfVars, phaseVars>>
    \/ PrintFieldTypes
          /\ UNCHANGED <<exVars, cntVars, fsVars, anVars, parseVars,
                         pdfVars, phaseVars>>
    \/ FieldTypesError
          /\ UNCHANGED <<exVars, cntVars, fsVars, anVars, parseVars,
                         pdfVars, phaseVars>>

SpecFields == InitRecord /\ [][NextRecord]_vars

\* create_pdf is called again and again on one generator object
InitGenerator ==
    InitPdf /\ IdleExtract /\ IdleCount /\ IdleFiles /\ IdleAnalyze
    /\ IdleParse
    /\ IdleFields
    /\ IdlePhases

NextGenerator ==
    \/ CallCreatePdf
          /\ UNCHANGED <<exVars, cntVars, fsVars, anVars, parseVars,
                         fieldVars, phaseVars>>
    \/ CreateSection
          /\ UNCHANGED <<exVars, cntVars, fsVars, anVars, parseVars,
                         fieldVars, phaseVars>>
    \/ CallBuild
          /\ UNCHANGED <<exVars, cntVars, fsVars, anVars, parseVars,
                         fieldVars, phaseVars>>
    \/ HandleFlowable
          /\ UNCHANGED <<exVars, cntVars, fsVars, anVars, parseVars,
                         fieldVars, phaseVars>>
    \/ EndBuild
          /\ UNCHANGED <<exVars, cntVars, fsVars, anVars, parseVars,
                         fieldVars, phaseVars>>

SpecPdf == InitGenerator /\ [][NextGenerator]_vars

\* the scripts are run one after the other, each through its phases
InitPhases ==
    IdlePhases /\ IdleExtract /\ IdleCount /\ IdleFiles /\ IdleAnalyze
    /\ IdleParse
    /\ IdleFields
    /\ IdlePdf

NextPhases ==
    \/ \E s \in Scripts : StartScript(s)
          /\ UNCHANGED <<exVars, cntVars, fsVars, anVars, parseVars,
                         fieldVars, pdfVars>>
    \/ NextPhase
          /\ UNCHANGED <<exVars, cntVars, fsVars, anVars, parseVars,
                         fieldVars, pdfVars>>
    \/ ExitScript
          /\ UNCHANGED <<exVars, cntVars, fsVars, anVars, parseVars,
                         fieldVars, pdfVars>>

SpecPhases == InitPhases /\ [][NextPhases]_vars

====
